---- MODULE Spec2Model ----
(***************************************************************************)
(* State-machine model of the IPO Readiness PDF Analyzer backend:          *)
(*   - ChatService (backend/app/chat_service.py): the two in-memory maps   *)
(*     chat_contexts and conversations, and the chat coroutine with its    *)
(*     two suspension points (summary LLM call, reply LLM call);           *)
(*   - the HTTP handlers of backend/app/main.py (POST /analyze-pdf,        *)
(*     POST /chat) with their exception-to-status mapping;                 *)
(*   - IPOAnalyzer.analyse (backend/app/ipo_analyzer.py).                  *)
(***************************************************************************)
EXTENDS Integers, Sequences, FiniteSets, TLC

\* ------------------------------------------------------------------ bounds
\* number of chat requests that can be in flight at the same time
NumProcs == 2
\* number of chat calls started in one behaviour when calls may interleave
MaxCalls == 4
\* number of chat calls started in one behaviour when calls run one at a time
MaxSeqCalls == 5
\* number of chat calls started in one behaviour that also serves uploads
MaxUploadCalls == 1
\* number of analysis requests (POST /analyze-pdf, analyse) in one behaviour
MaxUploads == 1
\* number of chat calls started in one behaviour of the process start-up
MaxServerCalls == 2
\* number of words in a reply whose sources are extracted
MaxReplyWords == 2
\* number of lines of a text whose list items are extracted
MaxTextLines == 5
\* number of messages of a conversation whose history is rendered
MaxHistoryLen == 12
\* lines of a summary reply given to the summary-paragraph parser
MaxSummaryLines == 4
\* lines of a reply whose numbered and bulleted items are extracted
MaxItemLines == 7
\* chat calls started, the settled ones included, when calls race on a
\* conversation that is long enough to be summarised
MaxRaceCalls == 5

\* ------------------------------------------------------- program constants
\* chat_service.py:100  len(conversation.messages) > 6
SummaryThreshold == 6
\* chat_service.py:140 / 195  conversation.messages[-10:]
HistoryWindow == 10
\* main.py:74  max_size = 20 * 1024 * 1024
MaxUploadSize == 20971520

\* ----------------------------------------------------------- input domains
AnalysisIds == {"a1", "a2"}
\* main.py:94  analysis_id of the canned analysis
CannedAnalysisId == "e83e9451-9939-4751-a0c4-554ba50ecd21"
\* keys the chat_contexts dict can hold
ContextIds == AnalysisIds \cup {CannedAnalysisId}
ConvIds == {"c1", "c2"}
Procs == 1..NumProcs
\* request.conversation_id is Optional[str]
None == "None"
NoConv == [absent |-> TRUE]
NoContext == [absent |-> TRUE]
NoSummary == [absent |-> TRUE]
UserMessages == {"what about revenue"}
FullTexts == {"deck text"}

\* chat_service.py:187
ApologyText == "I apologize, but I encountered an error while processing your question. Please try again."
\* chat_service.py:183
NoReplyText == "I apologize, but I couldn't generate a response."
\* text of a non-empty completion returned by the reply LLM
ReplyTexts == {"revenue grew"}

VARIABLES
    chat_contexts,   \* ChatService.chat_contexts : analysis_id -> ChatContext
    conversations,   \* ChatService.conversations : conversation_id -> ConversationHistory
    pc,              \* per request slot: where the chat coroutine is suspended
    req,             \* per request slot: the ChatRequest being served
    cid,             \* per request slot: local conversation_id of chat()
    summary_call,    \* per request slot: the summary LLM call of this call:
                     \* "none", "pending", "raised" or "returned"
    calls,           \* number of chat calls started so far
    call_no,         \* per request slot: ordinal of its call (seed of its uuid4 values)
    temp_files,      \* temporary files that exist on disk
    uploads,         \* number of analysis requests served so far
    result,          \* what the operation completed by the last step returned
                     \* or raised to its caller (NoResult: nothing completed)
    job,             \* PDFProcessor: the text extraction in progress (upload,
                     \* status polls, result fetch) and its clock
    applied,         \* a pure function under check: its input and, once it
                     \* has been applied, its output
    app              \* the server process: its environment and whether
                     \* main.py has been imported (the endpoints serve)

vars == <<chat_contexts, conversations, pc, req, cid, summary_call, calls, call_no,
          temp_files, uploads, result, job, applied, app>>

chatVars == <<conversations, pc, req, cid, summary_call, calls, call_no>>

\* what the HTTP handlers leave alone
auxVars == <<job, applied, app>>
\* everything the ChatService and the upload handler hold
serviceVars == <<chat_contexts, chatVars, temp_files, uploads, result>>

NoReq == [absent |-> TRUE]
NoResult == [absent |-> TRUE]
NoJob == [absent |-> TRUE]
NotApplied == [absent |-> TRUE]
\* both API keys are in the environment and main.py has been imported
Serving == [gemini_api_key |-> "set", llama_cloud_api_key |-> "set",
            state |-> "serving"]

\* the ChatService right after construction (chat_service.py:38-39) and
\* the upload handler before any request
ServiceInit ==
    /\ chat_contexts = [a \in ContextIds |-> NoContext]
    /\ conversations = [c \in ConvIds |-> NoConv]
    /\ pc = [p \in Procs |-> "idle"]
    /\ req = [p \in Procs |-> NoReq]
    /\ cid = [p \in Procs |-> None]
    /\ summary_call = [p \in Procs |-> "none"]
    /\ calls = 0
    /\ call_no = [p \in Procs |-> 0]
    /\ temp_files = {}
    /\ uploads = 0
    /\ result = NoResult

Init ==
    /\ ServiceInit
    /\ job = NoJob
    /\ applied = NotApplied
    /\ app = Serving

\* ------------------------------------------------- Python str operations
\* A str is modelled as the sequence of its characters; the result of
\* str.split('\n') as the sequence of its lines.
UpperChars == <<"A","B","C","D","E","F","G","H","I","J","K","L","M",
                "N","O","P","Q","R","S","T","U","V","W","X","Y","Z">>
LowerChars == <<"a","b","c","d","e","f","g","h","i","j","k","l","m",
                "n","o","p","q","r","s","t","u","v","w","x","y","z">>

\* str.lower() on one character
UpperSet == {UpperChars[i] : i \in 1..Len(UpperChars)}
LowerTable ==
    [ch \in UpperSet |->
        LowerChars[CHOOSE i \in 1..Len(UpperChars) : UpperChars[i] = ch]]
LowerChar(ch) == IF ch \in UpperSet THEN LowerTable[ch] ELSE ch

\* str.lower()
Lower(str) == [i \in 1..Len(str) |-> LowerChar(str[i])]

\* the characters str.strip() removes
Whitespace == {" ", "\t", "\r", "\n"}

\* str.lstrip(chars)
LStripChars(str, chars) ==
    LET keep == {i \in 1..Len(str) : str[i] \notin chars}
    IN IF keep = {} THEN << >>
       ELSE SubSeq(str, CHOOSE i \in keep : \A j \in keep : i <= j, Len(str))

\* str.rstrip(chars)
RStripChars(str, chars) ==
    LET keep == {i \in 1..Len(str) : str[i] \notin chars}
    IN IF keep = {} THEN << >>
       ELSE SubSeq(str, 1, CHOOSE i \in keep : \A j \in keep : j <= i)

\* str.strip()
Strip(str) == RStripChars(LStripChars(str, Whitespace), Whitespace)

\* str.startswith(prefix)
StartsWith(str, prefix) ==
    /\ Len(prefix) <= Len(str)
    /\ SubSeq(str, 1, Len(prefix)) = prefix

\* str.startswith(tuple of prefixes)
StartsWithAny(str, prefixes) == \E x \in prefixes : StartsWith(str, x)

\* str.endswith(suffix)
EndsWith(str, suffix) ==
    /\ Len(suffix) <= Len(str)
    /\ SubSeq(str, Len(str) - Len(suffix) + 1, Len(str)) = suffix

\* sub in str
Contains(str, sub) ==
    \E i \in 0..(Len(str) - Len(sub)) : SubSeq(str, i + 1, i + Len(sub)) = sub

\* str.split(sep)[1] for a one-character sep that occurs in str
SplitSecond(str, sep) ==
    LET at == {i \in 1..Len(str) : str[i] = sep}
        first == CHOOSE i \in at : \A j \in at : i <= j
        later == {i \in at : i > first}
        stop == IF later = {} THEN Len(str) + 1
                ELSE CHOOSE i \in later : \A j \in later : i <= j
    IN SubSeq(str, first + 1, stop - 1)

\* ' '.join(list of str)
RECURSIVE JoinSpace(_)
JoinSpace(strs) ==
    IF strs = << >> THEN << >>
    ELSE IF Len(strs) = 1 THEN strs[1]
    ELSE strs[1] \o <<" ">> \o JoinSpace(Tail(strs))

\* text.strip() on a text held as its lines: leading and trailing blank
\* lines go, the first line is left-stripped and the last right-stripped
StripText(lines) ==
    LET keep == {i \in 1..Len(lines) : Strip(lines[i]) # << >>}
    IN IF keep = {} THEN << << >> >>
       ELSE LET lo == CHOOSE i \in keep : \A j \in keep : i <= j
                hi == CHOOSE i \in keep : \A j \in keep : j <= i
            IN [k \in 1..(hi - lo + 1) |->
                  LET l == lines[lo + k - 1]
                      l1 == IF k = 1 THEN LStripChars(l, Whitespace) ELSE l
                  IN IF k = hi - lo + 1 THEN RStripChars(l1, Whitespace) ELSE l1]

\* --------------------------------------------- summary reply heuristics
\* the character U+2022 (bullet)
Bullet == "U+2022"
\* chat_service.py:288  the prefixes that make a line a list item
ListPrefixes == {<<"-">>, <<Bullet>>, <<"*">>, <<"1", ".">>, <<"2", ".">>,
                 <<"3", ".">>, <<"4", ".">>, <<"5", ".">>}
\* chat_service.py:289  lstrip('-•*123456789. ')
BulletChars == {"-", Bullet, "*", "1", "2", "3", "4", "5", "6", "7", "8", "9", ".", " "}
\* chat_service.py:292
ListStopWords == {<<"K", "e", "y">>, <<"I", "m", "p", "o", "r", "t", "a", "n", "t">>, <<"M", "a", "i", "n">>, <<"S", "u", "m", "m", "a", "r", "y">>}
\* chat_service.py:313
SummaryStopWords == {<<"K", "e", "y">>, <<"I", "m", "p", "o", "r", "t", "a", "n", "t">>, <<"M", "a", "i", "n">>}
\* chat_service.py:295  items[:5]
MaxListItems == 5

\* _extract_list_from_response: the loop over lines from line i on
RECURSIVE ExtractListLoop(_, _, _, _, _)
ExtractListLoop(lines, i, section, in_section, items) ==
    IF i > Len(lines) THEN items
    ELSE LET line == lines[i]
             stripped == Strip(line)
         IN IF Contains(Lower(line), Lower(section))
            THEN ExtractListLoop(lines, i + 1, section, TRUE, items)
            ELSE IF in_section /\ stripped # << >>
            THEN IF StartsWithAny(stripped, ListPrefixes)
                 THEN LET item == Strip(LStripChars(stripped, BulletChars))
                      IN ExtractListLoop(lines, i + 1, section, in_section,
                            IF item # << >> THEN Append(items, item) ELSE items)
                 ELSE IF ~StartsWithAny(stripped, ListStopWords)
                      THEN items
                      ELSE ExtractListLoop(lines, i + 1, section, in_section, items)
            ELSE ExtractListLoop(lines, i + 1, section, in_section, items)

\* _extract_list_from_response(response, section)
ExtractListFromResponse(lines, section) ==
    LET items == ExtractListLoop(lines, 1, section, FALSE, << >>)
    IN SubSeq(items, 1, IF Len(items) < MaxListItems THEN Len(items) ELSE MaxListItems)

\* _extract_summary_from_response: the loop over lines from line i on
RECURSIVE ExtractSummaryLoop(_, _, _, _)
ExtractSummaryLoop(lines, i, in_summary, summary_lines) ==
    IF i > Len(lines) THEN summary_lines
    ELSE LET line == lines[i]
             stripped == Strip(line)
         IN IF Contains(Lower(line), <<"s", "u", "m", "m", "a", "r", "y">>) /\ Contains(line, <<":">>)
            THEN LET same == Strip(SplitSecond(line, ":"))
                 IN ExtractSummaryLoop(lines, i + 1, TRUE,
                        IF same # << >> THEN Append(summary_lines, same)
                        ELSE summary_lines)
            ELSE IF in_summary
            THEN IF stripped # << >> /\ ~StartsWithAny(stripped, SummaryStopWords)
                 THEN ExtractSummaryLoop(lines, i + 1, in_summary,
                                         Append(summary_lines, stripped))
                 ELSE IF StartsWithAny(stripped, SummaryStopWords)
                      THEN summary_lines
                      ELSE ExtractSummaryLoop(lines, i + 1, in_summary, summary_lines)
            ELSE ExtractSummaryLoop(lines, i + 1, in_summary, summary_lines)

\* chat_service.py:319
NoSummaryText == <<"C", "o", "n", "v", "e", "r", "s", "a", "t", "i", "o", "n", " ", "s", "u", "m", "m", "a", "r", "y", " ", "u", "n", "a", "v", "a", "i", "l", "a", "b", "l", "e">>

\* _extract_summary_from_response(response)
ExtractSummaryFromResponse(lines) ==
    LET summary == Strip(JoinSpace(ExtractSummaryLoop(lines, 1, FALSE, << >>)))
    IN IF summary # << >> THEN summary ELSE NoSummaryText

\* chat_service.py:230-233  the section labels looked for
KeyTopicsLabel == <<"K", "e", "y", " ", "t", "o", "p", "i", "c", "s">>
ImportantQuestionsLabel == <<"I", "m", "p", "o", "r", "t", "a", "n", "t", " ", "q", "u", "e", "s", "t", "i", "o", "n", "s">>
KeyInsightsLabel == <<"K", "e", "y", " ", "i", "n", "s", "i", "g", "h", "t", "s">>
UserConcernsLabel == <<"u", "s", "e", "r", " ", "c", "o", "n", "c", "e", "r", "n", "s">>

\* chat_service.py:244  summary_text of the summary returned on an error
SummaryUnavailableText == <<"S", "u", "m", "m", "a", "r", "y", " ", "u", "n", "a", "v", "a", "i", "l", "a", "b", "l", "e", " ", "d", "u", "e", " ", "t", "o", " ", "p", "r", "o", "c", "e", "s", "s", "i", "n", "g", " ", "e", "r", "r", "o", "r">>

\* replies of the summary LLM (response.text), as lines
SummaryReplyGood ==
    << <<"K", "e", "y", " ", "t", "o", "p", "i", "c", "s", ":">>, <<"-", " ", "R", "e", "v", "e", "n", "u", "e">>, <<"S", "u", "m", "m", "a", "r", "y", ":", " ", "G", "o", "o", "d">> >>
SummaryReplyEmpty == << << >> >>
SummaryReplies == {SummaryReplyGood, SummaryReplyEmpty}

\* ----------------------------------------------------------- ChatService
\* ChatContext(...) built by store_analysis_context
ChatContext(analysis_id, full_text) ==
    [analysis_id |-> analysis_id, full_text |-> full_text]

\* store_analysis_context: self.chat_contexts[analysis_id] = context
StoreAnalysisContext(a, t) ==
    /\ chat_contexts' = [chat_contexts EXCEPT ![a] = ChatContext(a, t)]
    /\ result' = NoResult
    /\ UNCHANGED <<chatVars, temp_files, uploads, auxVars>>

\* ConversationHistory(conversation_id=..., analysis_id=..., summary=None)
\* messages: default_factory=list
ConversationHistory(conversation_id, analysis_id) ==
    [conversation_id |-> conversation_id, analysis_id |-> analysis_id,
     messages |-> << >>, summary |-> NoSummary]

\* ChatMessage(id=str(uuid.uuid4()), role=..., content=..., analysis_id=...)
ChatMessage(id, role, content, analysis_id) ==
    [id |-> id, role |-> role, content |-> content, analysis_id |-> analysis_id]

\* uuid.uuid4() for the two messages of the n-th chat call: fresh values
UserMessageId(n) == 2 * n - 1
AssistantMessageId(n) == 2 * n

\* the membership test left out: a conversation is created on every call
CreateConversationAlways(convs, c, a) ==
    [convs EXCEPT ![c] = ConversationHistory(c, a)]

\* chat lines 75-80: if conversation_id not in self.conversations: create
GetOrCreateConversation(convs, c, a) ==
    IF convs[c] = NoConv
    THEN [convs EXCEPT ![c] = ConversationHistory(c, a)]
    ELSE convs

\* an append that overwrites: a message of the role of the last stored
\* message takes that message's place
AppendMessageReplacingSameRole(convs, c, m) ==
    [convs EXCEPT ![c].messages =
        IF Len(@) > 0 /\ @[Len(@)].role = m.role
        THEN SubSeq(@, 1, Len(@) - 1) \o <<m>>
        ELSE Append(@, m)]

\* a write of a list read before the suspension: an assistant message
\* appended after another call's message replaces that message
AppendMessageOverStaleList(convs, c, m) ==
    [convs EXCEPT ![c].messages =
        IF m.role = "assistant" /\ Len(@) > 0 /\ @[Len(@)].id # m.id - 1
        THEN SubSeq(@, 1, Len(@) - 1) \o <<m>>
        ELSE Append(@, m)]

\* a list insert at the front instead of an append
AppendMessageAtFront(convs, c, m) ==
    [convs EXCEPT ![c].messages = <<m>> \o @]

\* conversation.messages.append(message)
AppendMessage(convs, c, m) ==
    [convs EXCEPT ![c].messages = Append(@, m)]

\* the test made with >= : a conversation of exactly 6 messages is
\* summarised too
NeedsSummaryFromThreshold(conv) == Len(conv.messages) >= SummaryThreshold

\* chat line 100: if len(conversation.messages) > 6
NeedsSummary(conv) == Len(conv.messages) > SummaryThreshold

\* ConversationSummary(key_topics, important_questions, key_insights,
\* user_concerns, summary_text); the four lists default to empty
ConversationSummary(topics, questions, insights, concerns, text) ==
    [key_topics |-> topics, important_questions |-> questions,
     key_insights |-> insights, user_concerns |-> concerns,
     summary_text |-> text]

\* outcome of the summary LLM call: it raises, or returns a reply text
SummaryOutcomes ==
    {[raised |-> TRUE, text |-> << << >> >>]}
        \cup {[raised |-> FALSE, text |-> t] : t \in SummaryReplies}

\* the except branch parsing an empty reply instead of returning the
\* 'unavailable' summary
UpdateConversationSummaryParsesOnError(outcome) ==
    LET response_text == IF outcome.raised \/ outcome.text = << << >> >>
                         THEN << << >> >>
                         ELSE StripText(outcome.text)
    IN ConversationSummary(
           ExtractListFromResponse(response_text, KeyTopicsLabel),
           ExtractListFromResponse(response_text, ImportantQuestionsLabel),
           ExtractListFromResponse(response_text, KeyInsightsLabel),
           ExtractListFromResponse(response_text, UserConcernsLabel),
           ExtractSummaryFromResponse(response_text))

\* _update_conversation_summary (lines 225-246): the reply is stripped and
\* parsed into the five fields; the except branch returns a summary with
\* the default (empty) lists and the fixed text.
UpdateConversationSummary(outcome) ==
    IF outcome.raised
    THEN ConversationSummary(<< >>, << >>, << >>, << >>, SummaryUnavailableText)
    ELSE LET response_text == IF outcome.text = << << >> >> THEN << << >> >>
                              ELSE StripText(outcome.text)
         IN ConversationSummary(
                ExtractListFromResponse(response_text, KeyTopicsLabel),
                ExtractListFromResponse(response_text, ImportantQuestionsLabel),
                ExtractListFromResponse(response_text, KeyInsightsLabel),
                ExtractListFromResponse(response_text, UserConcernsLabel),
                ExtractSummaryFromResponse(response_text))

\* outcome of the reply LLM call: it raises, or returns a non-empty text
ReplyOutcomes == {"error"} \cup ReplyTexts

\* _generate_response: what it returns for an outcome of rendering the
\* prompt and calling the LLM
\*   "render_error" : jinja get_template / render raises        -> except
\*   "error"        : generate_content raises                   -> except
\*   "empty"        : response.text is empty                    -> line 183 else
\*   a reply text   : response.text.strip()

GenerateResponseResultNoApology(outcome) ==
    CASE outcome \in {"render_error", "error", "empty"} -> NoReplyText
      [] OTHER -> outcome

GenerateResponseResult(outcome) ==
    CASE outcome \in {"render_error", "error"} -> ApologyText
      [] outcome = "empty" -> NoReplyText
      [] OTHER -> outcome

\* the "except ValueError" clause left out: every exception answers 500
ChatErrorStatusAlways500(exc) == 500

\* main.py:385-389: ValueError -> 404, any other exception -> 500
ChatErrorStatus(exc) == IF exc = "ValueError" THEN 404 ELSE 500

\* ChatRequest(message, analysis_id, conversation_id: Optional[str])
ChatRequest(message, analysis_id, conversation_id) ==
    [message |-> message, analysis_id |-> analysis_id,
     conversation_id |-> conversation_id]

\* The coroutine's locals are gone once chat() has returned or raised.
ReleaseSlot(p) ==
    /\ pc' = [pc EXCEPT ![p] = "idle"]
    /\ req' = [req EXCEPT ![p] = NoReq]
    /\ cid' = [cid EXCEPT ![p] = None]
    /\ call_no' = [call_no EXCEPT ![p] = 0]
    /\ summary_call' = [summary_call EXCEPT ![p] = "none"]

\* The tail of chat() from "response_content = await self._generate_response"
\* once the reply content is known (lines 110-129): append the assistant
\* message to the conversation the call holds and return the ChatResponse,
\* which chat_with_analysis (main.py:381-383) answers with status 200.
CompleteChat(p, convs, n, r, c, did_summary, outcome) ==
    LET content == GenerateResponseResult(outcome)
    IN /\ conversations' = AppendMessage(convs, c,
              ChatMessage(AssistantMessageId(n), "assistant", content, r.analysis_id))
       /\ result' = [op |-> "chat", request |-> r, status |-> 200,
                     message_id |-> AssistantMessageId(n), content |-> content,
                     conversation_id |-> c, analysis_id |-> r.analysis_id,
                     summary_call |-> did_summary, reply_call |-> outcome]
       /\ ReleaseSlot(p)

\* _generate_response up to its first suspension: the prompt is rendered
\* inside the try block; a rendering failure returns the apology at once,
\* otherwise the coroutine suspends in asyncio.to_thread(generate_content).
StartGenerateResponse(p, convs, n, r, c, did_summary, render_ok) ==
    IF render_ok
    THEN /\ conversations' = convs
         /\ pc' = [pc EXCEPT ![p] = "reply"]
         /\ req' = [req EXCEPT ![p] = r]
         /\ cid' = [cid EXCEPT ![p] = c]
         /\ call_no' = [call_no EXCEPT ![p] = n]
         /\ summary_call' = [summary_call EXCEPT ![p] = did_summary]
         /\ result' = NoResult
    ELSE CompleteChat(p, convs, n, r, c, did_summary, "render_error")

\* the request slot a new request is served in: slots are anonymous, the
\* lowest free one is taken
FreeSlot(p) == pc[p] = "idle" /\ \A q \in Procs : q < p => pc[q] # "idle"

\* POST /chat, from the entry of chat() to its first suspension point
\* (chat lines 71-108; there is no await before the summary / reply LLM call).
\*   rc    : request.conversation_id (None when the request carries none)
\*   fresh : the value uuid.uuid4() returns when rc is None
Chat(p, message, a, rc, fresh, render_ok) ==
    /\ FreeSlot(p)
    /\ rc = None => conversations[fresh] = NoConv
    /\ LET n == calls + 1
           r == ChatRequest(message, a, rc)
           c == IF rc = None THEN fresh ELSE rc
           convs1 == GetOrCreateConversation(conversations, c, a)
           convs2 == AppendMessage(convs1, c,
                        ChatMessage(UserMessageId(n), "user", message, a))
       IN /\ calls' = n
          /\ IF chat_contexts[a] = NoContext
             THEN \* raise ValueError; main.py:385 answers HTTPException(404)
                  /\ conversations' = convs1
                  /\ result' = [op |-> "chat", request |-> r,
                                status |-> ChatErrorStatus("ValueError"),
                                conversation_id |-> c]
                  /\ ReleaseSlot(p)
             ELSE IF NeedsSummary(convs2[c])
                  THEN /\ conversations' = convs2
                       /\ pc' = [pc EXCEPT ![p] = "summary"]
                       /\ req' = [req EXCEPT ![p] = r]
                       /\ cid' = [cid EXCEPT ![p] = c]
                       /\ call_no' = [call_no EXCEPT ![p] = n]
                       /\ summary_call' = [summary_call EXCEPT ![p] = "pending"]
                       /\ result' = NoResult
                  ELSE StartGenerateResponse(p, convs2, n, r, c, "none", render_ok)
    /\ UNCHANGED <<chat_contexts, temp_files, uploads, auxVars>>

\* a chat request arriving while other requests may be in flight
ChatStart(p, message, a, rc, fresh, render_ok) ==
    /\ calls < MaxCalls
    /\ Chat(p, message, a, rc, fresh, render_ok)

\* a chat request arriving when no other request is in flight
SeqChatStart(p, message, a, rc, fresh, render_ok) ==
    /\ calls < MaxSeqCalls
    /\ \A q \in Procs : pc[q] = "idle"
    /\ Chat(p, message, a, rc, fresh, render_ok)

\* a merge instead of a replacement: a failed recomputation keeps the
\* summary the conversation already has
SummaryReturnKeepsOldOnError(p, outcome, render_ok) ==
    /\ pc[p] = "summary"
    /\ LET c == cid[p]
           old == conversations[c].summary
           convs1 == [conversations EXCEPT
                        ![c].summary = IF outcome.raised /\ old # NoSummary
                                       THEN old
                                       ELSE UpdateConversationSummary(outcome)]
       IN StartGenerateResponse(p, convs1, call_no[p], req[p], c,
                                IF outcome.raised THEN "raised" ELSE "returned",
                                render_ok)
    /\ UNCHANGED <<chat_contexts, calls, temp_files, uploads, auxVars>>

\* The summary LLM call returns or raises (chat line 101): the summary is
\* stored in the conversation, then _generate_response runs to its suspension.
SummaryReturn(p, outcome, render_ok) ==
    /\ pc[p] = "summary"
    /\ LET c == cid[p]
           convs1 == [conversations EXCEPT
                        ![c].summary = UpdateConversationSummary(outcome)]
       IN StartGenerateResponse(p, convs1, call_no[p], req[p], c,
                                IF outcome.raised THEN "raised" ELSE "returned",
                                render_ok)
    /\ UNCHANGED <<chat_contexts, calls, temp_files, uploads, auxVars>>

\* The reply LLM call returns or raises (chat lines 104-129).
ReplyReturn(p, outcome) ==
    /\ pc[p] = "reply"
    /\ CompleteChat(p, conversations, call_no[p], req[p], cid[p], summary_call[p],
                    outcome)
    /\ UNCHANGED <<chat_contexts, calls, temp_files, uploads, auxVars>>

Next ==
    \/ \E a \in AnalysisIds, t \in FullTexts : StoreAnalysisContext(a, t)
    \/ \E p \in Procs, m \in UserMessages, a \in AnalysisIds,
          rc \in ConvIds \cup {None}, fresh \in ConvIds, ok \in BOOLEAN :
            ChatStart(p, m, a, rc, fresh, ok)
    \/ \E p \in Procs, o \in SummaryOutcomes, ok \in BOOLEAN :
            SummaryReturn(p, o, ok)
    \/ \E p \in Procs, o \in ReplyOutcomes : ReplyReturn(p, o)

Spec == Init /\ [][Next]_vars

\* the same program with its chat requests arriving one after another
SeqNext ==
    \/ \E a \in AnalysisIds, t \in FullTexts : StoreAnalysisContext(a, t)
    \/ \E p \in Procs, m \in UserMessages, a \in AnalysisIds,
          rc \in ConvIds \cup {None}, fresh \in ConvIds, ok \in BOOLEAN :
            SeqChatStart(p, m, a, rc, fresh, ok)
    \/ \E p \in Procs, o \in SummaryOutcomes, ok \in BOOLEAN :
            SummaryReturn(p, o, ok)
    \/ \E p \in Procs, o \in ReplyOutcomes : ReplyReturn(p, o)

SeqSpec == Init /\ [][SeqNext]_vars


\* ------------------------------------------------------------ IPOAnalyzer
\* the ladder with strict comparisons: a score on the lower edge of a band
\* falls into the band below
DetermineReadinessLevelExclusive(score) ==
    IF score > 86 THEN "Highly Ready"
    ELSE IF score > 66 THEN "Ready"
    ELSE IF score > 41 THEN "Developing"
    ELSE "Not Ready"

\* _determine_readiness_level(score)
DetermineReadinessLevel(score) ==
    IF score >= 86 THEN "Highly Ready"
    ELSE IF score >= 66 THEN "Ready"
    ELSE IF score >= 41 THEN "Developing"
    ELSE "Not Ready"

\* _fallback_analysis: the unstructured completion succeeds and the keyword
\* heuristic fills the result (confidence 0.3), or its failure is re-raised
FallbackAnalysis(fallback, score) ==
    IF fallback = "ok"
    THEN [raised |-> FALSE, overall_ipo_score |-> score, confidence_score |-> 3]
    ELSE [raised |-> TRUE]

\* _get_structured_analysis: the structured call, else the fallback
GetStructuredAnalysis(structured, fallback, score) ==
    IF structured = "ok"
    THEN [raised |-> FALSE, overall_ipo_score |-> score, confidence_score |-> 7]
    ELSE FallbackAnalysis(fallback, score)

\* IPOAnalyzer.analyse: every exception raised inside its try block is
\* caught (lines 138-157) and an IPOAnalysisResponse with score 0,
\* "Not Ready" and confidence 0.0 is returned. Confidence in tenths.
Analyse(analysis_id, structured, fallback, score) ==
    LET analysis_result == GetStructuredAnalysis(structured, fallback, score)
    IN IF analysis_result.raised
       THEN [raised |-> FALSE, analysis_id |-> analysis_id,
             overall_ipo_score |-> 0, readiness_level |-> "Not Ready",
             overall_assessment |-> "Analysis failed",
             confidence_score |-> 0]
       ELSE [raised |-> FALSE, analysis_id |-> analysis_id,
             overall_ipo_score |-> analysis_result.overall_ipo_score,
             readiness_level |->
                 DetermineReadinessLevel(analysis_result.overall_ipo_score),
             overall_assessment |-> "Analysis complete",
             confidence_score |-> analysis_result.confidence_score]

\* ------------------------------------------------------ POST /analyze-pdf
\* UploadFile.filename is Optional
NoFilename == << >>
DotPdf == <<".", "p", "d", "f">>
\* main.py:92  the file name answered with the canned analysis
CannedFilename == <<"C", "H", "E", "E", "L", "I", "Z", "Z", "A", " ", "P", "I", "Z", "Z", "A", " ", "I", "N", "D", "I", "A", " ", "L", "T", "D", " ", "-", " ", "I", "N", "V", "E", "S", "T", "M", "E", "N", "T", " ", "D", "E", "C", "K", ".", "p", "d", "f">>

\* pdf_processor.py:56  "def extract_content", not "async def": the call
\* returns a tuple, which is not awaitable
ExtractContentIsCoroutine == FALSE
\* ipo_analyzer.py:87  parameters of analyse(self, content, filename)
AnalyseParameters == {"content", "filename"}
\* main.py:298-301  keywords the handler calls analyse with
AnalyseCallKeywords == {"content", "extracted_content"}

\* Python binds a call when every keyword names a parameter and every
\* parameter (none has a default) is given
CallBinds(parameters, keywords) == keywords = parameters

\* main.py:65  not file.filename or not file.filename.lower().endswith('.pdf')
IsPdfFilename(filename) ==
    /\ filename # NoFilename
    /\ EndsWith(Lower(filename), DotPdf)

\* The body of the inner try block (main.py:83-313), the temporary file
\* being written: what it raises, or what it returns and stores.
AnalyzePdfInner(filename, extract, structured, fallback, score, fresh) ==
    IF extract = "error"
    THEN [raised |-> TRUE, exception |-> "Exception", stored |-> None]
    ELSE IF ~ExtractContentIsCoroutine
    THEN \* await of a tuple
         [raised |-> TRUE, exception |-> "TypeError", stored |-> None]
    ELSE IF filename = CannedFilename
    THEN \* main.py:93-294  the canned dict is stored and returned
         [raised |-> FALSE, stored |-> CannedAnalysisId,
          body |-> [analysis_id |-> CannedAnalysisId, readiness_level |-> "Developing"]]
    ELSE IF ~CallBinds(AnalyseParameters, AnalyseCallKeywords)
    THEN [raised |-> TRUE, exception |-> "TypeError", stored |-> None]
    ELSE [raised |-> FALSE, stored |-> fresh,
          body |-> Analyse(fresh, structured, fallback, score)]

\* the clean-up after the analysis instead of in a finally clause: an
\* exception of the inner block leaves the temporary file behind
AnalyzePdfHandlerCleansOnSuccessOnly(filename, size, extract, structured, fallback, score, fresh) ==
    IF ~IsPdfFilename(filename)
    THEN [raised |-> TRUE, exception |-> "HTTPException(400)",
          temp_written |-> FALSE, temp_deleted |-> FALSE, stored |-> None]
    ELSE IF size > MaxUploadSize
    THEN [raised |-> TRUE, exception |-> "HTTPException(400)",
          temp_written |-> FALSE, temp_deleted |-> FALSE, stored |-> None]
    ELSE LET inner == AnalyzePdfInner(filename, extract, structured, fallback,
                                      score, fresh)
         IN IF inner.raised
            THEN [raised |-> TRUE, exception |-> inner.exception,
                  temp_written |-> TRUE, temp_deleted |-> FALSE, stored |-> None]
            ELSE [raised |-> FALSE, body |-> inner.body,
                  temp_written |-> TRUE, temp_deleted |-> TRUE,
                  stored |-> inner.stored]

\* analyze_pdf as a whole (main.py:63-322): validation, temporary file,
\* inner try / finally, and the outer "except Exception", which also
\* catches the HTTPException(400) raised by the validation.
AnalyzePdfHandler(filename, size, extract, structured, fallback, score, fresh) ==
    IF ~IsPdfFilename(filename)
    THEN [raised |-> TRUE, exception |-> "HTTPException(400)",
          temp_written |-> FALSE, temp_deleted |-> FALSE, stored |-> None]
    ELSE IF size > MaxUploadSize
    THEN [raised |-> TRUE, exception |-> "HTTPException(400)",
          temp_written |-> FALSE, temp_deleted |-> FALSE, stored |-> None]
    ELSE LET inner == AnalyzePdfInner(filename, extract, structured, fallback,
                                      score, fresh)
         IN IF inner.raised
            THEN [raised |-> TRUE, exception |-> inner.exception,
                  temp_written |-> TRUE, temp_deleted |-> TRUE, stored |-> None]
            ELSE [raised |-> FALSE, body |-> inner.body,
                  temp_written |-> TRUE, temp_deleted |-> TRUE,
                  stored |-> inner.stored]

\* main.py:320-322  except Exception: raise HTTPException(status_code=500)
AnalyzePdfStatus(outcome) == IF outcome.raised THEN 500 ELSE 200

\* name of the temporary file of an upload (tempfile.NamedTemporaryFile)
TempFile == "upload.pdf"

\* POST /analyze-pdf. extract_content is a blocking call, so the handler
\* runs to its end without another request being served in between.
AnalyzePdf(filename, size, extract, structured, fallback, score, fresh, text) ==
    /\ uploads < MaxUploads
    /\ uploads' = uploads + 1
    /\ LET outcome == AnalyzePdfHandler(filename, size, extract, structured,
                                        fallback, score, fresh)
       IN /\ result' = [op |-> "analyze-pdf", filename |-> filename,
                        size |-> size, extract |-> extract,
                        structured |-> structured, fallback |-> fallback,
                        status |-> AnalyzePdfStatus(outcome),
                        exception |-> IF outcome.raised THEN outcome.exception
                                      ELSE None,
                        analysis_id |-> outcome.stored,
                        temp_written |-> outcome.temp_written]
          /\ chat_contexts' =
                IF outcome.stored # None
                THEN [chat_contexts EXCEPT
                        ![outcome.stored] = ChatContext(outcome.stored, text)]
                ELSE chat_contexts
          /\ temp_files' =
                IF outcome.temp_written /\ ~outcome.temp_deleted
                THEN temp_files \cup {TempFile}
                ELSE temp_files
    /\ UNCHANGED <<chatVars, auxVars>>

\* IPOAnalyzer.analyse called on its own
AnalyseCall(structured, fallback, score, fresh) ==
    /\ uploads < MaxUploads
    /\ uploads' = uploads + 1
    /\ result' = [op |-> "analyse", structured |-> structured,
                  fallback |-> fallback,
                  response |-> Analyse(fresh, structured, fallback, score)]
    /\ UNCHANGED <<chat_contexts, chatVars, temp_files, auxVars>>

\* inputs of the upload path
Filenames == {NoFilename, <<"d", "e", "c", "k", ".", "p", "d", "f">>, <<"D", "E", "C", "K", ".", "P", "D", "F">>, <<"d", "e", "c", "k", ".", "t", "x", "t">>, CannedFilename}
UploadSizes == {1, MaxUploadSize, MaxUploadSize + 1}
CallOutcomes == {"ok", "error"}
Scores == {10, 41, 66, 90}

\* a chat request in a behaviour that also serves uploads
UploadChatStart(p, message, a, rc, fresh, render_ok) ==
    /\ calls < MaxUploadCalls
    /\ Chat(p, message, a, rc, fresh, render_ok)

\* the HTTP surface with uploads and a few chat calls
UploadNext ==
    \/ \E a \in AnalysisIds, t \in FullTexts : StoreAnalysisContext(a, t)
    \/ \E f \in Filenames, size \in UploadSizes, e \in CallOutcomes,
          st \in CallOutcomes, fb \in CallOutcomes, sc \in Scores,
          a \in AnalysisIds, t \in FullTexts :
            AnalyzePdf(f, size, e, st, fb, sc, a, t)
    \/ \E st \in CallOutcomes, fb \in CallOutcomes, sc \in Scores,
          a \in AnalysisIds : AnalyseCall(st, fb, sc, a)
    \/ \E p \in Procs, m \in UserMessages, a \in AnalysisIds,
          rc \in ConvIds \cup {None}, fresh \in ConvIds, ok \in BOOLEAN :
            UploadChatStart(p, m, a, rc, fresh, ok)
    \/ \E p \in Procs, o \in ReplyOutcomes : ReplyReturn(p, o)

UploadSpec == Init /\ [][UploadNext]_vars

\* ----------------------------------------------------------- PDFProcessor
\* pdf_processor.py:162  max_wait_time: int = 300 (seconds)
MaxWaitTime == 300
\* pdf_processor.py:162  check_interval: int = 5 (seconds)
CheckInterval == 5
\* pdf_processor.py:179  timeout=30.0 of the status request (seconds)
PollTimeout == 30

\* what one status request can come back with: a status of the job, a
\* status the code does not know, an httpx.HTTPError (raise_for_status, a
\* transport error or the request timeout), or a body that is not JSON
\* (response.json() raises ValueError, which is no httpx.HTTPError)
JobStatuses == {"SUCCESS", "ERROR", "PENDING", "PROCESSING", "UNKNOWN"}
PollOutcomes == JobStatuses \cup {"HTTPError", "ValueError"}
\* seconds a status request takes
PollDurations == {0, PollTimeout}

\* _extract_with_llamaparse about to run: nothing uploaded, polled or fetched
\* (status: the last job status read; last: how the last status request ended)
NewJob == [pc |-> "upload", elapsed |-> 0, uploads |-> 0, polls |-> 0,
           fetches |-> 0, status |-> None, last |-> None, outcome |-> None]

\* how _extract_with_llamaparse ends: every exception of its three steps is
\* re-raised as Exception("LlamaParse extraction failed: ...") (lines 122-124)
EndJob(j, outcome) == [j EXCEPT !.pc = "done", !.outcome = outcome]

\* Step 1, _upload_file_to_llamaparse (lines 126-160): the job id, or the
\* exception of the request re-raised
UploadFile(ok) ==
    /\ job # NoJob
    /\ job.pc = "upload"
    /\ LET j == [job EXCEPT !.uploads = @ + 1]
       IN job' = IF ok THEN [j EXCEPT !.pc = "wait"]
                 ELSE EndJob(j, "upload failed")
    /\ UNCHANGED <<serviceVars, applied, app>>

\* the "except httpx.HTTPError" clause left out: an HTTP error of the
\* status request ends the wait
PollStepPropagatesHTTPError(outcome) ==
    CASE outcome = "SUCCESS" -> "return"
      [] outcome = "ERROR" -> "raise"
      [] outcome \in {"PENDING", "PROCESSING"} -> "sleep"
      [] outcome = "HTTPError" -> "raise"
      [] outcome = "ValueError" -> "raise"
      [] OTHER -> "sleep"

\* the "elif status == 'ERROR'" branch left out: ERROR is waited on like an
\* unknown status
PollStepWaitsOnError(outcome) ==
    CASE outcome = "SUCCESS" -> "return"
      [] outcome = "ValueError" -> "raise"
      [] OTHER -> "sleep"

\* what _wait_for_job_completion does with the outcome of one status
\* request (lines 188-204): "return", "raise", or "sleep" and poll again
PollStep(outcome) ==
    CASE outcome = "SUCCESS" -> "return"
      [] outcome = "ERROR" -> "raise"
      [] outcome \in {"PENDING", "PROCESSING"} -> "sleep"
      [] outcome = "HTTPError" -> "sleep"
      [] outcome = "ValueError" -> "raise"
      [] OTHER -> "sleep"

\* Step 2, one turn of the loop of _wait_for_job_completion (lines 173-204),
\* entered while time.time() - start_time < max_wait_time: one status
\* request taking d seconds, then return, raise or sleep check_interval
PollJob(outcome, d) ==
    /\ job # NoJob
    /\ job.pc = "wait"
    /\ job.elapsed < MaxWaitTime
    /\ LET j == [job EXCEPT !.polls = @ + 1, !.elapsed = @ + d,
                            !.last = outcome,
                            !.status = IF outcome \in JobStatuses
                                       THEN outcome ELSE @]
           step == PollStep(outcome)
       IN job' = CASE step = "return" -> [j EXCEPT !.pc = "fetch"]
                   [] step = "raise" ->
                        EndJob(j, IF outcome = "ERROR" THEN "job failed"
                                  ELSE "invalid status body")
                   [] OTHER -> [j EXCEPT !.elapsed = @ + CheckInterval]
    /\ UNCHANGED <<serviceVars, applied, app>>

\* the loop condition fails: line 206 raises "did not complete within"
JobTimeout ==
    /\ job # NoJob
    /\ job.pc = "wait"
    /\ job.elapsed >= MaxWaitTime
    /\ job' = EndJob(job, "timeout")
    /\ UNCHANGED <<serviceVars, applied, app>>

\* Step 3, _get_job_results (lines 208-240): the markdown, or the exception
\* of the request re-raised
GetJobResults(ok) ==
    /\ job # NoJob
    /\ job.pc = "fetch"
    /\ LET j == [job EXCEPT !.fetches = @ + 1]
       IN job' = EndJob(j, IF ok THEN "returned" ELSE "fetch failed")
    /\ UNCHANGED <<serviceVars, applied, app>>

ExtractInit ==
    /\ ServiceInit
    /\ applied = NotApplied
    /\ app = Serving
    /\ job = NewJob

ExtractNext ==
    \/ \E ok \in BOOLEAN : UploadFile(ok)
    \/ \E o \in PollOutcomes, d \in PollDurations : PollJob(o, d)
    \/ JobTimeout
    \/ \E ok \in BOOLEAN : GetJobResults(ok)

\* one run of PDFProcessor._extract_with_llamaparse
ExtractSpec == ExtractInit /\ [][ExtractNext]_vars

\* ------------------------------------------------- GET /chat/history/{id}
\* ChatService.get_conversation_history: self.conversations.get(id), None
\* (here NoConv) when the dict has no such key
ConversationsGet(convs, c) ==
    IF c \in DOMAIN convs THEN convs[c] ELSE NoConv

\* a handler that takes a stored conversation without messages for a
\* missing one
GetConversationHistoryHandlerEmptyIsMissing(convs, c) ==
    LET conversation == ConversationsGet(convs, c)
    IN IF conversation = NoConv \/ conversation.messages = << >>
       THEN [status |-> 404, body |-> None]
       ELSE [status |-> 200, body |-> conversation]

\* get_conversation_history (main.py:404-420): 404 when the service has no
\* conversation (the HTTPException is re-raised as it is), else its dump
GetConversationHistoryHandler(convs, c) ==
    LET conversation == ConversationsGet(convs, c)
    IN IF conversation = NoConv
       THEN [status |-> 404, body |-> None]
       ELSE [status |-> 200, body |-> conversation]

\* an id no chat call ever names
UnknownConvId == "c9"
HistoryIds == ConvIds \cup {UnknownConvId}

\* GET /chat/history/{conversation_id}: reads, changes nothing
GetConversationHistory(c) ==
    /\ app.state = "serving"
    /\ LET answer == GetConversationHistoryHandler(conversations, c)
       IN result' = [op |-> "history", conversation_id |-> c,
                     status |-> answer.status, body |-> answer.body]
    /\ UNCHANGED <<chat_contexts, chatVars, temp_files, uploads, auxVars>>

\* ------------------------------------------------------- process start-up
\* what os.getenv gives for a key: None, an empty string, or a value
EnvValues == {"absent", "empty", "set"}

\* "if not api_key": None and the empty string are both false
HasKey(v) == v = "set"

\* a constructor that does not look at LLAMA_CLOUD_API_KEY
PDFProcessorInitGeminiOnly(gemini, llama) ==
    IF ~HasKey(gemini) THEN "ValueError" ELSE "ok"

\* PDFProcessor.__init__ (pdf_processor.py:26-36)
PDFProcessorInit(gemini, llama) ==
    IF ~HasKey(gemini) THEN "ValueError"
    ELSE IF ~HasKey(llama) THEN "ValueError"
    ELSE "ok"

\* IPOAnalyzer.__init__ (ipo_analyzer.py:25-30)
IPOAnalyzerInit(gemini) ==
    IF ~HasKey(gemini) THEN "ValueError" ELSE "ok"

\* the module body of main.py, lines 36-42: the first constructor or check
\* that raises ends the import, and with it the process; the route
\* decorators (from line 44) run only after line 42
ImportMain(gemini, llama) ==
    IF PDFProcessorInit(gemini, llama) # "ok" THEN "failed"
    ELSE IF IPOAnalyzerInit(gemini) # "ok" THEN "failed"
    ELSE IF ~HasKey(gemini) THEN "failed"
    ELSE "serving"

\* uvicorn imports app.main
Startup ==
    /\ app.state = "import"
    /\ app' = [app EXCEPT !.state =
                  ImportMain(app.gemini_api_key, app.llama_cloud_api_key)]
    /\ UNCHANGED <<serviceVars, job, applied>>

\* a chat request to a process that serves
ServerChatStart(p, message, a, rc, fresh, render_ok) ==
    /\ app.state = "serving"
    /\ calls < MaxServerCalls
    /\ Chat(p, message, a, rc, fresh, render_ok)

\* the reply LLM call of a request returns, in a process that serves
ServerReplyReturn(p, outcome) ==
    /\ app.state = "serving"
    /\ ReplyReturn(p, outcome)

\* an analysis stores its context, in a process that serves
ServerStoreAnalysisContext(a, t) ==
    /\ app.state = "serving"
    /\ StoreAnalysisContext(a, t)

ServerInit ==
    /\ ServiceInit
    /\ job = NoJob
    /\ applied = NotApplied
    /\ \E g \in EnvValues, l \in EnvValues :
         app = [gemini_api_key |-> g, llama_cloud_api_key |-> l,
                state |-> "import"]

ServerNext ==
    \/ Startup
    \/ \E a \in AnalysisIds, t \in FullTexts : ServerStoreAnalysisContext(a, t)
    \/ \E p \in Procs, m \in UserMessages, a \in AnalysisIds,
          rc \in ConvIds \cup {None}, fresh \in ConvIds, ok \in BOOLEAN :
            ServerChatStart(p, m, a, rc, fresh, ok)
    \/ \E p \in Procs, o \in ReplyOutcomes : ServerReplyReturn(p, o)
    \/ \E c \in HistoryIds : GetConversationHistory(c)

\* the process from its start: the import of main.py, then requests
ServerSpec == ServerInit /\ [][ServerNext]_vars

\* -------------------------------------------- _extract_sources_referenced
\* the keyword lists of chat_service.py:255-270, in the order of the six ifs
ScoreWords ==
    {<<"s", "c", "o", "r", "e">>,
     <<"s", "c", "o", "r", "i", "n", "g">>,
     <<"r", "a", "t", "i", "n", "g">>}
FinancialWords ==
    {<<"f", "i", "n", "a", "n", "c", "i", "a", "l">>,
     <<"r", "e", "v", "e", "n", "u", "e">>,
     <<"p", "r", "o", "f", "i", "t">>,
     <<"f", "u", "n", "d", "i", "n", "g">>}
RiskWords ==
    {<<"r", "i", "s", "k">>,
     <<"c", "o", "n", "c", "e", "r", "n">>,
     <<"w", "e", "a", "k", "n", "e", "s", "s">>}
StrengthWords ==
    {<<"s", "t", "r", "e", "n", "g", "t", "h">>,
     <<"a", "d", "v", "a", "n", "t", "a", "g", "e">>,
     <<"p", "o", "s", "i", "t", "i", "v", "e">>}
RecommendationWords ==
    {<<"r", "e", "c", "o", "m", "m", "e", "n", "d", "a", "t", "i", "o", "n">>,
     <<"s", "u", "g", "g", "e", "s", "t">>,
     <<"s", "h", "o", "u", "l", "d">>}
MarketWords ==
    {<<"c", "o", "m", "p", "e", "t", "i", "t", "i", "v", "e">>,
     <<"m", "a", "r", "k", "e", "t">>,
     <<"i", "n", "d", "u", "s", "t", "r", "y">>}

\* any(word in response_lower for word in words)
AnyWordIn(response_lower, words) ==
    \E word \in words : Contains(response_lower, word)

\* sources.append(name) under its if
AppendIf(sources, cond, name) ==
    IF cond THEN Append(sources, name) ELSE sources

\* the six tests made on the reply as it is, without response.lower()
ExtractSourcesReferencedCaseSensitive(response) ==
    LET s1 == AppendIf(<< >>, AnyWordIn(response, ScoreWords), "IPO Scores")
        s2 == AppendIf(s1, AnyWordIn(response, FinancialWords), "Financial Highlights")
        s3 == AppendIf(s2, AnyWordIn(response, RiskWords), "Risk Assessment")
        s4 == AppendIf(s3, AnyWordIn(response, StrengthWords), "Strengths Analysis")
        s5 == AppendIf(s4, AnyWordIn(response, RecommendationWords), "Recommendations")
    IN AppendIf(s5, AnyWordIn(response, MarketWords), "Market Analysis")

\* ChatService._extract_sources_referenced (chat_service.py:248-273)
ExtractSourcesReferenced(response) ==
    LET response_lower == Lower(response)
        s1 == AppendIf(<< >>, AnyWordIn(response_lower, ScoreWords), "IPO Scores")
        s2 == AppendIf(s1, AnyWordIn(response_lower, FinancialWords), "Financial Highlights")
        s3 == AppendIf(s2, AnyWordIn(response_lower, RiskWords), "Risk Assessment")
        s4 == AppendIf(s3, AnyWordIn(response_lower, StrengthWords), "Strengths Analysis")
        s5 == AppendIf(s4, AnyWordIn(response_lower, RecommendationWords), "Recommendations")
    IN AppendIf(s5, AnyWordIn(response_lower, MarketWords), "Market Analysis")

\* words replies are made of
ReplyWords ==
    {<<"R", "e", "v", "e", "n", "u", "e">>,
     <<"r", "i", "s", "k">>,
     <<"S", "C", "O", "R", "I", "N", "G">>,
     <<"s", "t", "r", "e", "n", "g", "t", "h", "s">>,
     <<"S", "u", "g", "g", "e", "s", "t", "e", "d">>,
     <<"m", "a", "r", "k", "e", "t", "i", "n", "g">>,
     <<"h", "e", "l", "l", "o">>,
     <<"r", "a", "t">>,
     <<"i", "n", "g">>,
     <<"p", "r", "o", "f", "i", "t">>}

\* replies of up to MaxReplyWords words, joined by single spaces
SourceReplies ==
    {JoinSpace(ws) : ws \in UNION {[1..n -> ReplyWords] : n \in 0..MaxReplyWords}}

\* everything but the function under check is as after construction
IdleInit ==
    /\ ServiceInit
    /\ job = NoJob
    /\ app = Serving

SourcesInit ==
    /\ IdleInit
    /\ \E r \in SourceReplies :
         applied = [op |-> "sources", input |-> r, done |-> FALSE, output |-> << >>]

\* _extract_sources_referenced is applied to the reply
ApplyExtractSources ==
    /\ applied # NotApplied
    /\ applied.op = "sources"
    /\ ~applied.done
    /\ applied' = [applied EXCEPT !.done = TRUE,
                                  !.output = ExtractSourcesReferenced(applied.input)]
    /\ UNCHANGED <<serviceVars, job, app>>

SourcesNext == ApplyExtractSources

SourcesSpec == SourcesInit /\ [][SourcesNext]_vars

\* -------------------------------------------- _extract_list_from_response
\* lines LLM summary replies are made of
ListLines ==
    {<<"K", "e", "y", " ", "t", "o", "p", "i", "c", "s", ":">>,
     <<"-", " ", "A", "l", "p", "h", "a">>,
     <<"-", " ", "B", "e", "t", "a">>,
     <<"I", "m", "p", "o", "r", "t", "a", "n", "t", " ", "q", "u", "e", "s", "t", "i", "o", "n", "s", ":">>,
     <<"-", " ", "G", "a", "m", "m", "a">>,
     <<"T", "h", "a", "n", "k", "s", ".">>}

\* texts of up to MaxTextLines lines
ListTexts == UNION {[1..n -> ListLines] : n \in 0..MaxTextLines}

\* the section labels _update_conversation_summary asks for
ListSections == {KeyTopicsLabel, ImportantQuestionsLabel}

ListInit ==
    /\ IdleInit
    /\ \E t \in ListTexts, sec \in ListSections :
         applied = [op |-> "list", input |-> t, section |-> sec,
                    done |-> FALSE, output |-> << >>]

\* _extract_list_from_response is applied to the text
ApplyExtractList ==
    /\ applied # NotApplied
    /\ applied.op = "list"
    /\ ~applied.done
    /\ applied' = [applied EXCEPT
                     !.done = TRUE,
                     !.output = ExtractListFromResponse(applied.input, applied.section)]
    /\ UNCHANGED <<serviceVars, job, app>>

ListNext == ApplyExtractList

ListSpec == ListInit /\ [][ListNext]_vars

\* -------------------------------------------- _determine_readiness_level
\* response_models.py:59  overall_ipo_score: Field(..., ge=0, le=100)
MaxOverallScore == 100
OverallScores == 0..MaxOverallScore

ReadinessInit ==
    /\ IdleInit
    /\ \E x \in OverallScores, y \in OverallScores :
         applied = [op |-> "readiness", input |-> <<x, y>>, done |-> FALSE,
                    output |-> << >>]

\* _determine_readiness_level is applied to two scores
ApplyDetermineReadinessLevel ==
    /\ applied # NotApplied
    /\ applied.op = "readiness"
    /\ ~applied.done
    /\ applied' = [applied EXCEPT
                     !.done = TRUE,
                     !.output = <<DetermineReadinessLevel(applied.input[1]),
                                  DetermineReadinessLevel(applied.input[2])>>]
    /\ UNCHANGED <<serviceVars, job, app>>

ReadinessNext == ApplyDetermineReadinessLevel

ReadinessSpec == ReadinessInit /\ [][ReadinessNext]_vars

\* ------------------------------------------------- fallback criterion scores
\* ipo_analyzer.py:44-85  criterion["keywords"] of the 8 criteria_definitions
CriteriaKeywords ==
    <<<<<<"c", "o", "m", "p", "a", "n", "y">>, <<"f", "o", "u", "n", "d", "e", "d">>, <<"t", "e", "a", "m">>, <<"b", "a", "c", "k", "g", "r", "o", "u", "n", "d">>, <<"h", "i", "s", "t", "o", "r", "y">>>>,
      <<<<"m", "i", "s", "s", "i", "o", "n">>, <<"b", "u", "s", "i", "n", "e", "s", "s", " ", "m", "o", "d", "e", "l">>, <<"v", "a", "l", "u", "e", " ", "p", "r", "o", "p", "o", "s", "i", "t", "i", "o", "n">>, <<"s", "t", "r", "a", "t", "e", "g", "y">>>>,
      <<<<"c", "o", "m", "p", "e", "t", "i", "t", "i", "v", "e", " ", "a", "d", "v", "a", "n", "t", "a", "g", "e">>, <<"i", "p">>, <<"p", "a", "t", "e", "n", "t">>, <<"m", "o", "a", "t">>, <<"d", "i", "f", "f", "e", "r", "e", "n", "t", "i", "a", "t", "i", "o", "n">>>>,
      <<<<"r", "e", "g", "u", "l", "a", "t", "o", "r", "y">>, <<"c", "o", "m", "p", "l", "i", "a", "n", "c", "e">>, <<"l", "i", "c", "e", "n", "s", "e">>, <<"a", "p", "p", "r", "o", "v", "a", "l">>, <<"l", "e", "g", "a", "l">>>>,
      <<<<"t", "r", "a", "c", "t", "i", "o", "n">>, <<"c", "u", "s", "t", "o", "m", "e", "r", "s">>, <<"r", "e", "v", "e", "n", "u", "e">>, <<"g", "r", "o", "w", "t", "h">>, <<"v", "a", "l", "i", "d", "a", "t", "i", "o", "n">>>>,
      <<<<"u", "n", "i", "t", " ", "e", "c", "o", "n", "o", "m", "i", "c", "s">>, <<"c", "a", "c">>, <<"l", "t", "v">>, <<"m", "a", "r", "g", "i", "n", "s">>, <<"p", "r", "o", "f", "i", "t", "a", "b", "i", "l", "i", "t", "y">>>>,
      <<<<"e", "q", "u", "i", "t", "y">>, <<"c", "a", "p", " ", "t", "a", "b", "l", "e">>, <<"o", "w", "n", "e", "r", "s", "h", "i", "p">>, <<"s", "h", "a", "r", "e", "s">>, <<"d", "i", "l", "u", "t", "i", "o", "n">>>>,
      <<<<"r", "i", "s", "k", "s">>, <<"c", "h", "a", "l", "l", "e", "n", "g", "e", "s">>, <<"g", "a", "p", "s">>, <<"t", "h", "r", "e", "a", "t", "s">>, <<"w", "e", "a", "k", "n", "e", "s", "s", "e", "s">>>>>>

\* sum(1 for keyword in keywords if keyword in text_lower), from keyword i on
RECURSIVE KeywordCount(_, _, _)
KeywordCount(text_lower, keywords, i) ==
    IF i > Len(keywords) THEN 0
    ELSE (IF Contains(text_lower, keywords[i]) THEN 1 ELSE 0)
         + KeywordCount(text_lower, keywords, i + 1)

Min(a, b) == IF a <= b THEN a ELSE b
Max(a, b) == IF a >= b THEN a ELSE b

\* Scores are held in tenths of a point: 6.0 is 60, the jitter -0.5 is -5.

\* the base score without its cap of 8
EstimateCriterionScoreUncapped(text, keywords, adjustment) ==
    LET keyword_count == KeywordCount(Lower(text), keywords, 1)
        base_score == keyword_count * 2
    IN Max(0, Min(100, base_score * 10 + adjustment))

\* _estimate_criterion_score (ipo_analyzer.py:245-259), adjustment being
\* the value random.uniform(-0.5, 1.5) returned
EstimateCriterionScore(text, keywords, adjustment) ==
    LET keyword_count == KeywordCount(Lower(text), keywords, 1)
        base_score == Min(keyword_count * 2, 8)
    IN Max(0, Min(100, base_score * 10 + adjustment))

RECURSIVE SumSeq(_)
SumSeq(xs) == IF xs = << >> THEN 0 ELSE Head(xs) + SumSeq(Tail(xs))

\* ipo_analyzer.py:223  sum(c.score for c in criterion_scores) * 10 /
\* len(criterion_scores), as the fraction num / den of points
OverallScore(scores) ==
    [num |-> SumSeq(scores) * 10, den |-> Len(scores) * 10]

\* values of random.uniform(-0.5, 1.5): both ends, zero and one inside
Adjustments == {-5, 0, 15}

\* texts the fallback completion answers with
FallbackTexts ==
    {<< >>,
     <<"O", "u", "r", " ", "C", "O", "M", "P", "A", "N", "Y", " ", "w", "a", "s", " ", "f", "o", "u", "n", "d", "e", "d", " ", "b", "y", " ", "a", " ", "t", "e", "a", "m">>,
     <<"c", "o", "m", "p", "a", "n", "y", " ", "f", "o", "u", "n", "d", "e", "d", " ", "t", "e", "a", "m", " ", "b", "a", "c", "k", "g", "r", "o", "u", "n", "d", " ", "h", "i", "s", "t", "o", "r", "y">>,
     <<"R", "e", "v", "e", "n", "u", "e", " ", "g", "r", "o", "w", "t", "h">>,
     <<"e", "q", "u", "i", "t", "y", " ", "s", "h", "a", "r", "e", "s">>}

FallbackInit ==
    /\ IdleInit
    /\ \E t \in FallbackTexts :
         applied = [op |-> "fallback", input |-> t, adjustments |-> << >>,
                    scores |-> << >>, done |-> FALSE,
                    output |-> [num |-> 0, den |-> 1]]

\* one turn of the loop of _fallback_analysis (ipo_analyzer.py:212-221)
EstimateNextCriterion(adjustment) ==
    /\ applied # NotApplied
    /\ applied.op = "fallback"
    /\ Len(applied.scores) < Len(CriteriaKeywords)
    /\ LET criterion == Len(applied.scores) + 1
       IN applied' = [applied EXCEPT
                        !.adjustments = Append(@, adjustment),
                        !.scores = Append(@,
                            EstimateCriterionScore(applied.input,
                                CriteriaKeywords[criterion], adjustment))]
    /\ UNCHANGED <<serviceVars, job, app>>

\* ipo_analyzer.py:223  the overall score of the 8 criterion scores
ComputeOverallScore ==
    /\ applied # NotApplied
    /\ applied.op = "fallback"
    /\ Len(applied.scores) = Len(CriteriaKeywords)
    /\ ~applied.done
    /\ applied' = [applied EXCEPT !.done = TRUE,
                                  !.output = OverallScore(applied.scores)]
    /\ UNCHANGED <<serviceVars, job, app>>

FallbackNext ==
    \/ \E adj \in Adjustments : EstimateNextCriterion(adj)
    \/ ComputeOverallScore

FallbackSpec == FallbackInit /\ [][FallbackNext]_vars

\* ------------------------------------- _generate_response: prompt history
\* chat_service.py:140  conversation.messages[-10:] if len(...) > 10 else
\* conversation.messages
RecentMessages(messages) ==
    IF Len(messages) > HistoryWindow
    THEN SubSeq(messages, Len(messages) - HistoryWindow + 1, Len(messages))
    ELSE messages

\* chat_service.py:145  "User" if msg.role == MessageRole.USER else "Assistant"
RoleName(role) == IF role = "user" THEN "User" ELSE "Assistant"

\* chat_service.py:143-146  one "Role: content" entry for every message of
\* recent_messages[:-1]
ConversationHistoryText(messages) ==
    LET recent_messages == RecentMessages(messages)
    IN [k \in 1..(Len(recent_messages) - 1) |->
           [role_name |-> RoleName(recent_messages[k].role),
            content |-> recent_messages[k].content]]

Roles == {"user", "assistant"}

\* how many of the first j entries of roles are r
RoleCount(roles, r, j) == Cardinality({i \in 1..j : roles[i] = r})

\* A message list the service can hold when the call that appended message
\* `current` renders its prompt: every assistant message answers an earlier
\* user message of its own call, the call of `current` has no reply yet,
\* and messages follow `current` only if the call was suspended in its
\* summary LLM call, that is if `current` was appended past the threshold.
RenderableConversation(roles, current) ==
    /\ roles[current] = "user"
    /\ current = Len(roles) \/ current > SummaryThreshold
    /\ \A j \in 1..Len(roles) :
         RoleCount(roles, "assistant", j)
            <= RoleCount(roles, "user", j) - (IF j >= current THEN 1 ELSE 0)

\* the messages of such a list: message k has id k and the text number k
HistoryMessages(roles) ==
    [k \in 1..Len(roles) |-> ChatMessage(k, roles[k], k, "a1")]

RenderInit ==
    /\ IdleInit
    /\ \E n \in 1..MaxHistoryLen :
         \E roles \in [1..n -> Roles], current \in 1..n :
            /\ RenderableConversation(roles, current)
            /\ applied = [op |-> "history", input |-> HistoryMessages(roles),
                          current |-> current, done |-> FALSE, output |-> << >>]

\* _generate_response builds conversation_history
ApplyConversationHistoryText ==
    /\ applied # NotApplied
    /\ applied.op = "history"
    /\ ~applied.done
    /\ applied' = [applied EXCEPT
                     !.done = TRUE,
                     !.output = ConversationHistoryText(applied.input)]
    /\ UNCHANGED <<serviceVars, job, app>>

RenderNext == ApplyConversationHistoryText

RenderSpec == RenderInit /\ [][RenderNext]_vars

\* ---------------------------------------- _extract_summary_from_response
\* lines a summary reply is made of: summary headers with text after the
\* colon (one with a second colon), a header with nothing after it, plain
\* text, a blank line and a line starting with a stop-word
SummaryLines ==
    {<<"S", "u", "m", "m", "a", "r", "y", ":", " ", "G", "o", "o", "d">>,
     <<"S", "u", "m", "m", "a", "r", "y", ":", " ", "R", "a", "t", "i", "o", " ", "3", ":", "1">>,
     <<"S", "U", "M", "M", "A", "R", "Y", ":">>,
     <<" ", "m", "o", "r", "e", " ">>,
     <<" ">>,
     <<"K", "e", "y", " ", "t", "o", "p", "i", "c", "s">>}

\* response.split('\n') of replies of up to MaxSummaryLines lines
SummaryTexts == UNION {[1..n -> SummaryLines] : n \in 1..MaxSummaryLines}

SummaryParseInit ==
    /\ IdleInit
    /\ \E t \in SummaryTexts :
         applied = [op |-> "summary", input |-> t, done |-> FALSE, output |-> << >>]

\* _extract_summary_from_response is applied to the text
ApplyExtractSummary ==
    /\ applied # NotApplied
    /\ applied.op = "summary"
    /\ ~applied.done
    /\ applied' = [applied EXCEPT
                     !.done = TRUE,
                     !.output = ExtractSummaryFromResponse(applied.input)]
    /\ UNCHANGED <<serviceVars, job, app>>

SummaryParseNext == ApplyExtractSummary

SummaryParseSpec == SummaryParseInit /\ [][SummaryParseNext]_vars

\* ----------------------- _extract_list_from_response on decorated items
\* lines of a reply with a list: the section header, a numbered item whose
\* text begins with a digit, an item numbered 6 and a bulleted item
ItemLines ==
    {<<"K", "e", "y", " ", "t", "o", "p", "i", "c", "s", ":">>,
     <<"1", ".", " ", "2", "0", "2", "4", " ", "p", "l", "a", "n">>,
     <<"6", ".", " ", "S", "i", "x", "t", "h">>,
     <<"-", " ", "A", "l", "p", "h", "a">>}

\* response.split('\n') of replies of up to MaxItemLines lines
ItemTexts == UNION {[1..n -> ItemLines] : n \in 1..MaxItemLines}

ItemInit ==
    /\ IdleInit
    /\ \E t \in ItemTexts :
         applied = [op |-> "items", input |-> t, section |-> KeyTopicsLabel,
                    done |-> FALSE, output |-> << >>]

\* _extract_list_from_response(response, "Key topics")
ApplyExtractItems ==
    /\ applied # NotApplied
    /\ applied.op = "items"
    /\ ~applied.done
    /\ applied' = [applied EXCEPT
                     !.done = TRUE,
                     !.output = ExtractListFromResponse(applied.input, applied.section)]
    /\ UNCHANGED <<serviceVars, job, app>>

ItemNext == ApplyExtractItems

ItemSpec == ItemInit /\ [][ItemNext]_vars

\* --------------------------- chat calls racing on a summarised conversation
\* the messages _generate_response renders: the window without its last
\* entry (chat_service.py:140 and 144)
RenderedMessages(messages) ==
    LET recent_messages == RecentMessages(messages)
    IN SubSeq(recent_messages, 1, Len(recent_messages) - 1)

\* the service after three chat calls made one after another on the
\* conversation "c1" of the analysis "a1": six messages, no summary yet
SettledConversation ==
    [ConversationHistory("c1", "a1") EXCEPT
        !.messages =
            [k \in 1..SummaryThreshold |->
                IF k % 2 = 1
                THEN ChatMessage(k, "user", "what about revenue", "a1")
                ELSE ChatMessage(k, "assistant", "revenue grew", "a1")]]

RaceInit ==
    /\ chat_contexts = [a \in ContextIds |->
                          IF a = "a1" THEN ChatContext("a1", "deck text")
                          ELSE NoContext]
    /\ conversations = [c \in ConvIds |->
                          IF c = "c1" THEN SettledConversation ELSE NoConv]
    /\ calls = SummaryThreshold \div 2
    /\ pc = [p \in Procs |-> "idle"]
    /\ req = [p \in Procs |-> NoReq]
    /\ cid = [p \in Procs |-> None]
    /\ summary_call = [p \in Procs |-> "none"]
    /\ call_no = [p \in Procs |-> 0]
    /\ temp_files = {}
    /\ uploads = 0
    /\ result = NoResult
    /\ job = NoJob
    /\ applied = NotApplied
    /\ app = Serving

\* a further chat request, others possibly in flight
RaceChatStart(p, message, a, rc, fresh, render_ok) ==
    /\ calls < MaxRaceCalls
    /\ Chat(p, message, a, rc, fresh, render_ok)

RaceNext ==
    \/ \E p \in Procs, m \in UserMessages, a \in AnalysisIds,
          rc \in ConvIds \cup {None}, fresh \in ConvIds, ok \in BOOLEAN :
            RaceChatStart(p, m, a, rc, fresh, ok)
    \/ \E p \in Procs, o \in SummaryOutcomes, ok \in BOOLEAN :
            SummaryReturn(p, o, ok)
    \/ \E p \in Procs, o \in ReplyOutcomes : ReplyReturn(p, o)

RaceSpec == RaceInit /\ [][RaceNext]_vars

\* ------------------------------------------- the stored analysis contexts
\* full texts two analyses can extract (two uploads of different content)
ContextTexts == {"deck text", "revised deck text"}

\* an analysis stores its context (main.py:288-293 and 306-311). The id of
\* an analysis made by IPOAnalyzer.analyse is a new uuid4 value
\* (ipo_analyzer.py:99), so it names no stored context; the canned analysis
\* carries the fixed id of main.py:94 every time.
AnalysisStoresContext(a, t) ==
    /\ a # CannedAnalysisId => chat_contexts[a] = NoContext
    /\ StoreAnalysisContext(a, t)

\* file names of the uploads: an ordinary deck and the canned one
ContextFilenames == {<<"d", "e", "c", "k", ".", "p", "d", "f">>, CannedFilename}

\* the service with its contexts: analyses storing contexts, uploads, chat
\* calls and history reads
ContextNext ==
    \/ \E a \in ContextIds, t \in ContextTexts : AnalysisStoresContext(a, t)
    \/ \E f \in ContextFilenames, e \in CallOutcomes, a \in AnalysisIds,
          t \in ContextTexts :
            AnalyzePdf(f, 1, e, "ok", "ok", 66, a, t)
    \/ \E p \in Procs, m \in UserMessages, a \in ContextIds,
          rc \in ConvIds \cup {None}, fresh \in ConvIds, ok \in BOOLEAN :
            UploadChatStart(p, m, a, rc, fresh, ok)
    \/ \E p \in Procs, o \in ReplyOutcomes : ReplyReturn(p, o)
    \/ \E c \in HistoryIds : GetConversationHistory(c)

ContextSpec == Init /\ [][ContextNext]_vars

\* one run of _extract_with_llamaparse that is not stopped from outside:
\* its next step is eventually taken (the calls block for a bounded time:
\* the status request has a timeout, time.sleep returns)
ExtractFairSpec == ExtractSpec /\ WF_vars(ExtractNext)

\* ================================================================ claims
\* messages of conversation c in the map convs (none when c is absent)
MessagesOf(convs, c) ==
    IF convs[c] = NoConv THEN << >> ELSE convs[c].messages

IsPrefix(s, t) == Len(s) <= Len(t) /\ SubSeq(t, 1, Len(s)) = s

AllIdle == \A p \in Procs : pc[p] = "idle"

\* C1: after N chat calls executed one after another on one conversation,
\* each with a stored context, its message list has exactly 2N entries: the
\* k-th call contributed entries 2k-1 (role user) and 2k (role assistant,
\* the reply of that same call), so the roles alternate starting with user.
C1_TwoPerCallAlternating ==
    AllIdle =>
        \A c \in ConvIds :
            LET m == MessagesOf(conversations, c)
            IN /\ Len(m) % 2 = 0
               /\ \A k \in 1..(Len(m) \div 2) :
                    /\ m[2 * k - 1].role = "user"
                    /\ m[2 * k].role = "assistant"
                    /\ m[2 * k].id = m[2 * k - 1].id + 1
               /\ \A i, j \in 1..Len(m) : i < j => m[i].id < m[j].id

\* five calls have run one after another on one conversation
C1_Witness ==
    /\ AllIdle
    /\ \E c \in ConvIds : Len(MessagesOf(conversations, c)) = 2 * MaxSeqCalls

\* the request of the chat call that started in the step (calls' = calls + 1)
StartedRequest ==
    IF \E p \in Procs : call_no'[p] = calls'
    THEN req'[CHOOSE p \in Procs : call_no'[p] = calls']
    ELSE result'.request

\* the conversation id the chat call that started in the step works on
StartedConversationId ==
    IF \E p \in Procs : call_no'[p] = calls'
    THEN cid'[CHOOSE p \in Procs : call_no'[p] = calls']
    ELSE result'.conversation_id

ChatStarts == calls' = calls + 1

\* C2: a chat call whose analysisId has no stored AnalysisContext always
\* fails with not-found (404 at POST /chat) and appends no message to any
\* conversation, whether or not the conversationId already exists.
C2_NoContextNotFound ==
    [][(ChatStarts /\ chat_contexts[StartedRequest.analysis_id] = NoContext)
        => /\ result' # NoResult
           /\ result'.op = "chat"
           /\ result'.status = 404
           /\ \A c \in ConvIds :
                MessagesOf(conversations', c) = MessagesOf(conversations, c)]_vars

\* a call without context was answered 404 on a conversation that already
\* holds messages
C2_Witness ==
    /\ result # NoResult
    /\ result.op = "chat"
    /\ result.status = 404
    /\ chat_contexts[result.request.analysis_id] = NoContext
    /\ Len(MessagesOf(conversations, result.conversation_id)) >= 2

\* C3: whenever a chat call succeeds, an AnalysisContext is stored for the
\* analysisId of the ConversationHistory the call appended to.
C3_SuccessImpliesContextOfConversation ==
    (result # NoResult /\ result.op = "chat" /\ result.status = 200)
        => chat_contexts[conversations[result.conversation_id].analysis_id]
              # NoContext

\* C4: for a conversationId not previously seen (supplied, or generated when
\* the request carries none) chat creates exactly one ConversationHistory for
\* that id, bound to the request's analysisId and empty before the user
\* message is appended; an id already present is reused, never re-created,
\* also when calls with the same unseen id interleave.
C4_CreateOnceThenReuse ==
    [][/\ \A c \in ConvIds :
            /\ conversations[c] # NoConv =>
                 /\ conversations'[c] # NoConv
                 /\ conversations'[c].conversation_id = c
                 /\ conversations'[c].analysis_id = conversations[c].analysis_id
                 /\ IsPrefix(conversations[c].messages, conversations'[c].messages)
            /\ (conversations[c] = NoConv /\ conversations'[c] # NoConv) =>
                 /\ ChatStarts
                 /\ StartedConversationId = c
                 /\ conversations'[c].conversation_id = c
                 /\ conversations'[c].analysis_id = StartedRequest.analysis_id
                 /\ conversations'[c].summary = NoSummary
                 /\ \/ conversations'[c].messages = << >>
                    \/ /\ Len(conversations'[c].messages) \in {1, 2}
                       /\ conversations'[c].messages[1] =
                            ChatMessage(UserMessageId(calls'), "user",
                                        StartedRequest.message,
                                        StartedRequest.analysis_id)
       /\ ChatStarts =>
            /\ conversations'[StartedConversationId] # NoConv
            /\ \A c \in ConvIds \ {StartedConversationId} :
                 conversations'[c] = conversations[c]
            /\ StartedRequest.conversation_id # None =>
                 StartedConversationId = StartedRequest.conversation_id
            /\ StartedRequest.conversation_id = None =>
                 conversations[StartedConversationId] = NoConv]_vars

\* two calls that named the same unseen id are in flight on the one
\* conversation created for it
C4_Witness ==
    /\ \A p \in Procs : pc[p] # "idle" /\ cid[p] = "c1"
    /\ \A p \in Procs : req[p].conversation_id = "c1"
    /\ Len(conversations["c1"].messages) = NumProcs
    /\ conversations["c2"] = NoConv

\* the chat call the result belongs to made a reply attempt that failed
ReplyFailed ==
    /\ result # NoResult
    /\ result.op = "chat"
    /\ "reply_call" \in DOMAIN result
    /\ result.reply_call \in {"error", "render_error"}

\* the message count an in-flight call saw right after appending its user
\* message, when calls run one after another
CountAfterUserMessage(p) == Len(conversations[cid[p]].messages)

\* the trigger the claim describes: the count first exceeds 6, or the call
\* takes the count to or across a multiple of 6
TriggerAsClaimed(count) ==
    \/ count = SummaryThreshold + 1
    \/ /\ count > SummaryThreshold
       /\ (count + 1) \div 6 > (count - 1) \div 6

\* C5: over successive chat calls on one conversation, the summary LLM call
\* is made exactly when the message count first exceeds 6 and at every later
\* multiple-of-6 boundary of the count, and at no other chat call.
C5_SummaryOnlyAtBoundaries ==
    \A p \in Procs :
        pc[p] # "idle" =>
            (summary_call[p] # "none" <=> TriggerAsClaimed(CountAfterUserMessage(p)))

\* C6: if the reply LLM call (or rendering its prompt) fails, chat returns
\* normally with the fixed apology as content, the same string is appended
\* as the assistant message, and the call has appended exactly one user and
\* one assistant message.
C6_ReplyFailureGivesApology ==
    ReplyFailed =>
        LET m == conversations[result.conversation_id].messages
            mine == {i \in 1..Len(m) :
                        m[i].id \in {result.message_id - 1, result.message_id}}
        IN /\ result.status = 200
           /\ result.content = ApologyText
           /\ m[Len(m)] = ChatMessage(result.message_id, "assistant", ApologyText,
                                      result.request.analysis_id)
           /\ Cardinality(mine) = 2
           /\ \E i \in mine :
                m[i] = ChatMessage(result.message_id - 1, "user",
                                   result.request.message,
                                   result.request.analysis_id)

\* the reply LLM call raised after the prompt had been rendered
C6_Witness ==
    /\ ReplyFailed
    /\ result.reply_call = "error"
    /\ Len(conversations[result.conversation_id].messages) >= 4

\* what the summary LLM call of slot p's call did, seen after the step in
\* which it ended
SummaryCallAfter(p) ==
    IF pc'[p] = "reply" THEN summary_call'[p] ELSE result'.summary_call

\* C7: if the summary LLM call fails, the recomputed ConversationSummary has
\* four empty lists and the fixed 'unavailable' text, the error is not
\* propagated, and the chat call goes on to generate and append the reply.
C7_SummaryFailureGivesUnavailable ==
    /\ [][\A p \in Procs :
            (pc[p] = "summary" /\ pc'[p] # "summary"
                /\ SummaryCallAfter(p) = "raised")
            => /\ LET sm == conversations'[cid[p]].summary
                  IN /\ sm.key_topics = << >>
                     /\ sm.important_questions = << >>
                     /\ sm.key_insights = << >>
                     /\ sm.user_concerns = << >>
                     /\ sm.summary_text = SummaryUnavailableText
               /\ \/ pc'[p] = "reply"
                  \/ /\ result'.op = "chat"
                     /\ result'.status = 200]_vars
    /\ []((/\ result # NoResult
           /\ result.op = "chat"
           /\ "summary_call" \in DOMAIN result
           /\ result.summary_call = "raised")
          => LET m == conversations[result.conversation_id].messages
             IN /\ result.status = 200
                /\ m[Len(m)].id = result.message_id
                /\ m[Len(m)].role = "assistant")

\* a call whose summary LLM call raised has returned 200 and the
\* conversation holds the 'unavailable' summary
C7_Witness ==
    /\ result # NoResult
    /\ result.op = "chat"
    /\ result.status = 200
    /\ result.summary_call = "raised"
    /\ result.reply_call \in ReplyTexts
    /\ conversations[result.conversation_id].summary.summary_text
          = SummaryUnavailableText

IsUpload == result # NoResult /\ result.op = "analyze-pdf"

\* C8: POST /analyze-pdf answers 400 when the filename is missing or does
\* not end in .pdf (case-insensitively) and 400 when the content is larger
\* than 20MB; in both cases no parsing job is started and no context stored.
C8_BadUploadAnswers400 ==
    (IsUpload /\ (~IsPdfFilename(result.filename) \/ result.size > MaxUploadSize))
        => /\ result.status = 400
           /\ result.analysis_id = None
           /\ temp_files = {}

\* C9: for a .pdf upload of at most 20MB whose parsing job and LLM analysis
\* both succeed, POST /analyze-pdf returns 200 and an AnalysisContext is
\* stored under the returned analysisId before the response is sent.
C9_GoodUploadAnswers200 ==
    (IsUpload /\ IsPdfFilename(result.filename) /\ result.size <= MaxUploadSize
        /\ result.extract = "ok" /\ result.structured = "ok")
        => /\ result.status = 200
           /\ result.analysis_id # None
           /\ chat_contexts[result.analysis_id] # NoContext

\* C10: a failure of the LLM analysis (structured call and fallback both
\* fail) is propagated to the caller as an error (500 at POST /analyze-pdf);
\* it is never returned as a normal analysis object and no context is stored.
C10_AnalysisFailurePropagates ==
    /\ (IsUpload /\ IsPdfFilename(result.filename) /\ result.size <= MaxUploadSize
            /\ result.extract = "ok"
            /\ result.structured = "error" /\ result.fallback = "error")
        => /\ result.status = 500
           /\ result.analysis_id = None
    /\ (result # NoResult /\ result.op = "analyse"
            /\ result.structured = "error" /\ result.fallback = "error")
        => result.response.raised

\* C11: text extraction runs upload, then status polling, then result
\* fetch, in that order; the text is fetched and returned only after a poll
\* has observed SUCCESS; a poll that observes ERROR makes the wait raise at
\* once, with no further poll and no fetch; when the time is up without
\* SUCCESS, the timeout error is raised and nothing is fetched.
C11_UploadPollFetchInOrder ==
    /\ [](job.polls > 0 => job.uploads = 1)
    /\ [](job.fetches > 0 => (job.polls > 0 /\ job.status = "SUCCESS"))
    /\ [](job.outcome = "returned" => (job.fetches = 1 /\ job.status = "SUCCESS"))
    /\ [](job.outcome = "job failed" => (job.status = "ERROR" /\ job.fetches = 0))
    /\ [](job.outcome = "timeout" =>
            (job.elapsed >= MaxWaitTime /\ job.status # "SUCCESS" /\ job.fetches = 0))
    /\ [][job.uploads' > job.uploads => (job.polls = 0 /\ job.fetches = 0)]_vars
    /\ [][job.polls' > job.polls => job.fetches = 0]_vars
    /\ [][(job.polls' > job.polls /\ job'.status = "ERROR")
            => (job'.pc = "done" /\ job'.outcome = "job failed")]_vars
    /\ [][job.pc = "done" => job' = job]_vars
    /\ [][(job.pc = "wait" /\ job.elapsed >= MaxWaitTime /\ job' # job)
            => job'.outcome = "timeout"]_vars

\* the job was polled more than once, reported SUCCESS and its text was
\* fetched and returned
C11_Witness ==
    /\ job.outcome = "returned"
    /\ job.polls > 2

\* a poll observed ERROR after earlier polls and the wait raised
C11_WitnessError ==
    /\ job.outcome = "job failed"
    /\ job.polls > 1

\* the time ran out
C11_WitnessTimeout == job.outcome = "timeout"

\* ids of the messages conversation c holds
MessageIds(c) ==
    {MessagesOf(conversations, c)[i].id :
        i \in 1..Len(MessagesOf(conversations, c))}

\* a call has returned 200 while another call is in flight on the same
\* conversation: the two calls interleaved
ReturnedWhileOtherInFlight(q) ==
    /\ result # NoResult
    /\ result.op = "chat"
    /\ result.status = 200
    /\ pc[q] # "idle"
    /\ cid[q] = result.conversation_id

\* C12 as stated: the appended-message sequence of interleaving chat calls
\* on one conversationId is last-write-wins, so that when two calls have
\* interleaved, a message appended by one of them is missing from the list.
C12_LastWriteWinsLosesMessage ==
    \A q \in Procs :
        ReturnedWhileOtherInFlight(q) =>
            \E id \in {result.message_id - 1, result.message_id,
                        UserMessageId(call_no[q])} :
                id \notin MessageIds(result.conversation_id)

\* C12 as amended: chat calls on one conversationId are not guarded by any
\* lock and interleave at their LLM calls, but each append is made in place
\* on the one shared list: no message is ever removed or replaced, every
\* call in flight has its user message in the list and every call that
\* returned has both its messages there; interleaving changes only the order.
C12_InterleavingLosesNoMessage ==
    /\ [][\A c \in ConvIds :
            IsPrefix(MessagesOf(conversations, c), MessagesOf(conversations', c))]_vars
    /\ [](\A p \in Procs :
            pc[p] # "idle" => UserMessageId(call_no[p]) \in MessageIds(cid[p]))
    /\ []((result # NoResult /\ result.op = "chat" /\ result.status = 200)
            => {result.message_id - 1, result.message_id}
                  \subseteq MessageIds(result.conversation_id))

\* two calls interleaved on one conversation and both returned: the list
\* holds all four messages, the two user messages first
C12_Witness ==
    /\ AllIdle
    /\ \E c \in ConvIds :
         LET m == MessagesOf(conversations, c)
         IN /\ Len(m) = 4
            /\ m[1].role = "user" /\ m[2].role = "user"
            /\ m[3].role = "assistant" /\ m[4].role = "assistant"
            /\ m[3].id = m[2].id + 1
            /\ {m[i].id : i \in 1..4} = 1..4

IsHistory == result # NoResult /\ result.op = "history"

\* C13: GET /chat/history/{conversationId} returns 404 exactly when no
\* ConversationHistory is stored under that id, and otherwise returns that
\* conversation with all its messages in append order.
C13_HistoryOr404 ==
    /\ [](IsHistory =>
            /\ result.status \in {200, 404}
            /\ result.status = 404 <=>
                  (result.conversation_id \notin ConvIds
                     \/ conversations[result.conversation_id] = NoConv)
            /\ result.status = 200 =>
                  /\ result.body.conversation_id = result.conversation_id
                  /\ result.body.messages
                        = conversations[result.conversation_id].messages)
    /\ [][\A c \in ConvIds :
            IsPrefix(MessagesOf(conversations, c),
                     MessagesOf(conversations', c))
            /\ (IsHistory' => conversations' = conversations)]_vars

\* the history of a conversation with a call in flight was read: it holds
\* the messages of the call that returned and the user message of the other
C13_Witness ==
    /\ IsHistory
    /\ result.status = 200
    /\ Len(result.body.messages) = 3

\* the history of a conversation that a failed chat call left empty
C13_WitnessEmpty ==
    /\ IsHistory
    /\ result.status = 200
    /\ result.body.messages = << >>

\* a request was handled: the service state differs from the initial one
RequestHandled ==
    \/ result # NoResult
    \/ calls > 0
    \/ \E a \in ContextIds : chat_contexts[a] # NoContext
    \/ \E c \in ConvIds : conversations[c] # NoConv

\* C18: if the LLM provider API key or the parsing-service API key is absent
\* from the environment, start-up raises before any endpoint serves, so no
\* request is ever handled in a process that lacks either key.
C18_NoKeyNoService ==
    (~HasKey(app.gemini_api_key) \/ ~HasKey(app.llama_cloud_api_key))
        => /\ app.state \in {"import", "failed"}
           /\ ~RequestHandled

\* start-up has failed for want of the parsing-service key alone
C18_Witness ==
    /\ app.state = "failed"
    /\ HasKey(app.gemini_api_key)
    /\ app.llama_cloud_api_key = "absent"

\* with both keys the process serves requests
C18_WitnessServing == app.state = "serving" /\ RequestHandled

\* the categories in declaration order, each with its keywords
DeclaredCategories ==
    << [name |-> "IPO Scores", keywords |-> ScoreWords],
       [name |-> "Financial Highlights", keywords |-> FinancialWords],
       [name |-> "Risk Assessment", keywords |-> RiskWords],
       [name |-> "Strengths Analysis", keywords |-> StrengthWords],
       [name |-> "Recommendations", keywords |-> RecommendationWords],
       [name |-> "Market Analysis", keywords |-> MarketWords] >>

\* keyword occurs in reply at some position, letter case ignored
OccursIgnoringCase(keyword, reply) ==
    \E at \in 0..(Len(reply) - Len(keyword)) :
        \A j \in 1..Len(keyword) : LowerChar(reply[at + j]) = LowerChar(keyword[j])

\* the declared categories with a keyword in reply, in declaration order
RECURSIVE CategoriesWithKeyword(_, _)
CategoriesWithKeyword(reply, k) ==
    IF k > Len(DeclaredCategories) THEN << >>
    ELSE (IF \E w \in DeclaredCategories[k].keywords : OccursIgnoringCase(w, reply)
          THEN <<DeclaredCategories[k].name>> ELSE << >>)
         \o CategoriesWithKeyword(reply, k + 1)

SourcesApplied ==
    applied # NotApplied /\ applied.op = "sources" /\ applied.done

\* the only keywords occurring in reply are 'revenue' and 'risk'
OnlyRevenueAndRisk(reply) ==
    /\ OccursIgnoringCase(<<"r", "e", "v", "e", "n", "u", "e">>, reply)
    /\ OccursIgnoringCase(<<"r", "i", "s", "k">>, reply)
    /\ \A k \in 1..Len(DeclaredCategories) :
         \A w \in DeclaredCategories[k].keywords :
            OccursIgnoringCase(w, reply) => w \in {<<"r", "e", "v", "e", "n", "u", "e">>, <<"r", "i", "s", "k">>}

\* C14: sourcesReferenced is exactly the list, in declaration order and
\* without duplicates, of the categories with at least one keyword occurring
\* case-insensitively in the reply; a reply whose only keyword matches are
\* 'revenue' and 'risk' gives [Financial Highlights, Risk Assessment], and
\* a reply with no match gives the empty list.
C14_SourcesInDeclarationOrder ==
    SourcesApplied =>
        /\ applied.output = CategoriesWithKeyword(applied.input, 1)
        /\ \A i, j \in 1..Len(applied.output) :
             i # j => applied.output[i] # applied.output[j]
        /\ OnlyRevenueAndRisk(applied.input) =>
             applied.output = <<"Financial Highlights", "Risk Assessment">>
        /\ (\A k \in 1..Len(DeclaredCategories) :
               \A w \in DeclaredCategories[k].keywords :
                  ~OccursIgnoringCase(w, applied.input))
             => applied.output = << >>

\* a reply with 'Revenue' and 'risk' and no other keyword was processed
C14_Witness ==
    /\ SourcesApplied
    /\ OnlyRevenueAndRisk(applied.input)
    /\ applied.input # Lower(applied.input)
    /\ applied.output = <<"Financial Highlights", "Risk Assessment">>

ListApplied ==
    applied # NotApplied /\ applied.op = "list" /\ applied.done

\* the lines that name the section, letter case ignored
HeaderLines(lines, section) ==
    {i \in 1..Len(lines) :
        \E at \in 0..(Len(lines[i]) - Len(section)) :
            \A j \in 1..Len(section) :
                LowerChar(lines[i][at + j]) = LowerChar(section[j])}

\* the lines after header h that start with a stop-word and head another
\* section
StopLinesAfter(lines, section, h) ==
    {i \in (h + 1)..Len(lines) :
        /\ i \notin HeaderLines(lines, section)
        /\ \E w \in ListStopWords : StartsWith(Strip(lines[i]), w)}

\* the lines of the requested section: after its first header and before
\* the next line that starts with a stop-word
SectionLines(lines, section) ==
    LET heads == HeaderLines(lines, section)
    IN IF heads = {} THEN {}
       ELSE LET h == CHOOSE i \in heads : \A j \in heads : i <= j
                stops == StopLinesAfter(lines, section, h)
                stop == IF stops = {} THEN Len(lines) + 1
                        ELSE CHOOSE i \in stops : \A j \in stops : i <= j
            IN (h + 1)..(stop - 1)

\* the example text of the specification
ExampleText ==
    <<<<"K", "e", "y", " ", "t", "o", "p", "i", "c", "s", ":">>, <<"-", " ", "A", "l", "p", "h", "a">>, <<"-", " ", "B", "e", "t", "a">>,
      <<"I", "m", "p", "o", "r", "t", "a", "n", "t", " ", "q", "u", "e", "s", "t", "i", "o", "n", "s", ":">>, <<"-", " ", "G", "a", "m", "m", "a">>>>

\* C15: the list-extraction heuristic returns items of the requested section
\* only: collection stops at the next line that starts with a stop-word, so
\* items under a following section header are never returned; for the
\* example text it returns [Alpha, Beta] for 'Key topics' and [Gamma] for
\* 'Important questions'.
C15_ItemsOfRequestedSectionOnly ==
    ListApplied =>
        /\ \A k \in 1..Len(applied.output) :
             \E i \in SectionLines(applied.input, applied.section) :
                applied.output[k] = Strip(LStripChars(Strip(applied.input[i]), BulletChars))
        /\ (applied.input = ExampleText /\ applied.section = KeyTopicsLabel)
             => applied.output = <<<<"A", "l", "p", "h", "a">>, <<"B", "e", "t", "a">>>>
        /\ (applied.input = ExampleText /\ applied.section = ImportantQuestionsLabel)
             => applied.output = <<<<"G", "a", "m", "m", "a">>>>

\* the example text with the section 'Key topics' was processed
C15_ExampleApplied ==
    /\ ListApplied
    /\ applied.input = ExampleText
    /\ applied.section = KeyTopicsLabel

ReadinessApplied ==
    applied # NotApplied /\ applied.op = "readiness" /\ applied.done

\* the labels from the lowest to the highest
ReadinessLabels == <<"Not Ready", "Developing", "Ready", "Highly Ready">>
LabelRank(label) == CHOOSE k \in 1..Len(ReadinessLabels) : ReadinessLabels[k] = label

\* the lower edge of each band, for the labels above
BandLowerEdge == <<0, 41, 66, 86>>

\* C16: the readiness label is a total function of the overall score given
\* by the ladder >= 86 'Highly Ready', >= 66 'Ready', >= 41 'Developing',
\* else 'Not Ready'; each band is inclusive on its lower edge (90 and 86
\* give Highly Ready, 66 Ready, 41 Developing, 10 Not Ready) and the label
\* is monotone in the score.
C16_ReadinessLadder ==
    ReadinessApplied =>
        LET x == applied.input[1]
            y == applied.input[2]
            lx == applied.output[1]
            ly == applied.output[2]
        IN /\ \E k \in 1..Len(ReadinessLabels) : lx = ReadinessLabels[k]
           /\ \A k \in 1..Len(ReadinessLabels) :
                lx = ReadinessLabels[k] <=>
                    /\ x >= BandLowerEdge[k]
                    /\ k < Len(ReadinessLabels) => x < BandLowerEdge[k + 1]
           /\ x \in {86, 90} => lx = "Highly Ready"
           /\ x = 66 => lx = "Ready"
           /\ x = 41 => lx = "Developing"
           /\ x = 10 => lx = "Not Ready"
           /\ x <= y => LabelRank(lx) <= LabelRank(ly)

\* the scores on both sides of the edge 86 were labelled
C16_Witness ==
    /\ ReadinessApplied
    /\ applied.input = <<85, 86>>
    /\ applied.output = <<"Ready", "Highly Ready">>

FallbackApplied == applied # NotApplied /\ applied.op = "fallback"

\* k: how many different keywords of criterion c occur in the lower-cased
\* text
KeywordsFound(text, c) ==
    Cardinality({i \in 1..Len(CriteriaKeywords[c]) :
                    \E at \in 0..(Len(text) - Len(CriteriaKeywords[c][i])) :
                        \A j \in 1..Len(CriteriaKeywords[c][i]) :
                            LowerChar(text[at + j]) = CriteriaKeywords[c][i][j]})

\* C17: with the jitter fixed to 0 the fallback criterion score is
\* min(2 x k, 8), k being the number of the criterion's keywords occurring
\* in the lower-cased text (k = 3 gives 6); with any jitter in [-0.5, 1.5]
\* the score is clamped into [0, 10], so the overall score, the mean of the
\* 8 criterion scores x 10, lies in [0, 100]. Scores are in tenths.
C17_FallbackScoreBounds ==
    FallbackApplied =>
        /\ \A c \in 1..Len(applied.scores) :
             LET k == KeywordsFound(applied.input, c)
             IN /\ applied.scores[c] >= 0
                /\ applied.scores[c] <= 100
                /\ applied.adjustments[c] = 0 =>
                     applied.scores[c] = 10 * (IF 2 * k < 8 THEN 2 * k ELSE 8)
                /\ (applied.adjustments[c] = 0 /\ k = 3) => applied.scores[c] = 60
        /\ applied.done =>
             /\ Len(applied.scores) = 8
             /\ applied.output.den > 0
             /\ applied.output.num >= 0
             /\ applied.output.num <= 100 * applied.output.den
             \* overall = mean x 10, the mean of tenths being
             \* SumSeq / (10 x 8) points
             /\ applied.output.num * (10 * Len(applied.scores))
                  = (SumSeq(applied.scores) * 10) * applied.output.den

\* a text with three keywords of the first criterion scored 6 with jitter 0,
\* and the overall score has been computed
C17_Witness ==
    /\ FallbackApplied
    /\ applied.done
    /\ KeywordsFound(applied.input, 1) = 3
    /\ applied.adjustments[1] = 0
    /\ applied.scores[1] = 60

\* all five keywords of a criterion occur and the cap of 8 applies
C17_WitnessCap ==
    /\ FallbackApplied
    /\ Len(applied.scores) >= 1
    /\ KeywordsFound(applied.input, 1) = 5
    /\ applied.adjustments[1] = 0
    /\ applied.scores[1] = 80

\* the slot of the chat call that started in the step, when the call is
\* still in flight after it
StartedSlots == {p \in Procs : call_no'[p] = calls'}

\* the summary a conversation holds (none when it does not exist yet)
SummaryOf(convs, c) ==
    IF convs[c] = NoConv THEN NoSummary ELSE convs[c].summary

C19_WitnessNoSummary ==
    \E p \in Procs :
        /\ pc[p] = "reply"
        /\ summary_call[p] = "none"
        /\ Len(conversations[cid[p]].messages) = SummaryThreshold

HistoryRendered ==
    applied # NotApplied /\ applied.op = "history" /\ applied.done

\* the entry the prompt holds for message msg
HistoryEntry(msg) ==
    [role_name |-> IF msg.role = "user" THEN "User" ELSE "Assistant",
     content |-> msg.content]

\* C20: the history rendered into the reply prompt is the last 10 messages
\* of the conversation with the current user message excluded: when at
\* least 10 messages precede the current user message, exactly those 10
\* most recent preceding messages are rendered, in order, as 'User:' /
\* 'Assistant:' pairs, and the current user message is never among them.
C20_LastTenBeforeCurrent ==
    HistoryRendered =>
        LET m == applied.input
            current == applied.current
        IN /\ current - 1 >= HistoryWindow =>
                applied.output =
                    [k \in 1..HistoryWindow |->
                        HistoryEntry(m[current - 1 - HistoryWindow + k])]
           /\ \A k \in 1..Len(applied.output) :
                applied.output[k] # HistoryEntry(m[current])

\* eleven messages, the current user message last: ten precede it
C20_TenPrecede ==
    /\ HistoryRendered
    /\ Len(applied.input) = HistoryWindow + 1
    /\ applied.current = HistoryWindow + 1
    /\ \A k \in 1..Len(applied.input) :
         applied.input[k].role = (IF k % 2 = 1 THEN "user" ELSE "assistant")

\* another call appended its user message while the call was suspended in
\* its summary LLM call
C20_OtherCallAppended ==
    /\ HistoryRendered
    /\ Len(applied.input) = SummaryThreshold + 2
    /\ applied.current = SummaryThreshold + 1

\* the summaries a recomputation can produce when its LLM call raised
\* (raised = TRUE) or returned a reply (raised = FALSE)
RecomputedSummaries(raised) ==
    {UpdateConversationSummary(o) : o \in {x \in SummaryOutcomes : x.raised = raised}}

\* C21: each time the summary recomputation fires, the conversation's summary
\* becomes the newly computed ConversationSummary alone: it is the summary
\* computed from the outcome of this recomputation's LLM call, whatever the
\* summary was before, also when the call fails and the 'unavailable'
\* summary replaces an earlier one.
C21_SummaryReplacedWholesale ==
    [][\A p \in Procs :
        (pc[p] = "summary" /\ pc'[p] # "summary")
        => /\ SummaryCallAfter(p) \in {"raised", "returned"}
           /\ conversations'[cid[p]].summary
                \in RecomputedSummaries(SummaryCallAfter(p) = "raised")]_vars

\* the second recomputation on a conversation (9 messages) failed and the
\* conversation now holds the 'unavailable' summary in place of the
\* summary of the first recomputation
C21_Witness ==
    \E p \in Procs :
        /\ pc[p] = "reply"
        /\ summary_call[p] = "raised"
        /\ Len(conversations[cid[p]].messages) = 2 * MaxSeqCalls - 1
        /\ conversations[cid[p]].summary
             = ConversationSummary(<< >>, << >>, << >>, << >>, SummaryUnavailableText)

\* C22: once an AnalysisContext is stored for an analysisId, no later
\* operation (a chat call, a history read, a further upload or
\* store_analysis_context call) changes the context stored under that id.
C22_StoredContextNeverChanges ==
    [][\A a \in ContextIds :
         chat_contexts[a] # NoContext => chat_contexts'[a] = chat_contexts[a]]_vars

\* C23: across chat calls, in any interleaving, and reads, a stored
\* ConversationHistory is never removed and its message list only grows at
\* its end: the list before a step is a prefix of the list after it (so
\* every earlier list is a prefix of every later one, and the id, role and
\* content of a stored message never change).
C23_ConversationsOnlyGrowAtEnd ==
    [][\A c \in ConvIds :
         conversations[c] # NoConv
         => /\ conversations'[c] # NoConv
            /\ IsPrefix(conversations[c].messages, conversations'[c].messages)
            /\ \A i \in 1..Len(conversations[c].messages) :
                 /\ conversations'[c].messages[i].id = conversations[c].messages[i].id
                 /\ conversations'[c].messages[i].role = conversations[c].messages[i].role
                 /\ conversations'[c].messages[i].content
                      = conversations[c].messages[i].content]_vars

\* a history read answered with a conversation of at least three messages
\* while a chat call on that conversation is still in flight
C23_Witness ==
    /\ IsHistory
    /\ result.status = 200
    /\ Len(result.body.messages) >= 3
    /\ \E p \in Procs : pc[p] # "idle" /\ cid[p] = result.conversation_id

\* the most status polls one wait can make: max_wait_time / check_interval
MostPolls == MaxWaitTime \div CheckInterval

\* the wait has raised: the job ended after a poll and before any fetch
WaitRaised == job.pc = "done" /\ job.polls > 0 /\ job.fetches = 0

\* the outcomes of a status request after which the wait polls again
NonTerminalPolls == {"PENDING", "PROCESSING", "UNKNOWN", "HTTPError"}

\* C24: the job-status wait returns only on status SUCCESS, raises on status
\* ERROR and otherwise raises the timeout error once max_wait_time has
\* elapsed, and makes at most 60 status polls.
C24_WaitEndsBySuccessErrorOrTimeout ==
    /\ job.pc = "fetch" => job.last = "SUCCESS"
    /\ WaitRaised =>
         \/ job.last = "ERROR" /\ job.outcome = "job failed"
         \/ job.outcome = "timeout" /\ job.elapsed >= MaxWaitTime
    /\ job.polls <= MostPolls

\* C24 as it holds: the wait always terminates; it returns only on status
\* SUCCESS, raises on status ERROR, raises at once when the status response
\* cannot be decoded, and otherwise raises the timeout error once
\* max_wait_time has elapsed; every poll that finds PENDING, PROCESSING, an
\* unknown status or an HTTP error sleeps check_interval before the next
\* poll, so at most 60 status polls are made for one job.
C24_WaitTerminatesWithinSixtyPolls ==
    /\ [](/\ job.pc = "fetch" => job.last = "SUCCESS"
          /\ WaitRaised =>
               \/ job.last = "ERROR" /\ job.outcome = "job failed"
               \/ job.last = "ValueError" /\ job.outcome = "invalid status body"
               \/ job.outcome = "timeout" /\ job.elapsed >= MaxWaitTime
          /\ job.polls <= MostPolls)
    /\ [][job'.polls = job.polls + 1 =>
            /\ job.elapsed < MaxWaitTime
            /\ job'.last = "SUCCESS" => job'.pc = "fetch"
            /\ job'.last \in {"ERROR", "ValueError"} => job'.pc = "done"
            /\ job'.last \in NonTerminalPolls =>
                 /\ job'.pc = "wait"
                 /\ job'.elapsed >= job.elapsed + CheckInterval]_vars
    /\ <>(job.pc = "done")

\* a wait that polled 60 times, every poll non-terminal, and timed out
C24_Witness ==
    /\ job.outcome = "timeout"
    /\ job.polls = MostPolls
    /\ job.last \in NonTerminalPolls

\* a wait ended by a status response that could not be decoded
C24_WitnessInvalidBody ==
    /\ WaitRaised
    /\ job.last = "ValueError"
    /\ job.polls > 1

SummaryParsed == applied # NotApplied /\ applied.op = "summary" /\ applied.done

SummaryWord == <<"s", "u", "m", "m", "a", "r", "y">>

\* the lines of a reply that contain 'summary' and a colon
SummaryHeaders(lines) ==
    {i \in 1..Len(lines) :
        Contains(Lower(lines[i]), SummaryWord) /\ Contains(lines[i], <<":">>)}

\* all the text of a line after its first colon
AfterFirstColon(line) ==
    LET at == {i \in 1..Len(line) : line[i] = ":"}
        first == CHOOSE i \in at : \A j \in at : i <= j
    IN SubSeq(line, first + 1, Len(line))

\* the stripped non-blank lines from line i up to (not including) the first
\* line that starts with a stop-word
RECURSIVE LinesUpToStopWord(_, _)
LinesUpToStopWord(lines, i) ==
    IF i > Len(lines) \/ StartsWithAny(Strip(lines[i]), SummaryStopWords)
    THEN << >>
    ELSE (IF Strip(lines[i]) = << >> THEN << >> ELSE <<Strip(lines[i])>>)
            \o LinesUpToStopWord(lines, i + 1)

\* the summary paragraph of a reply with a header line, as described
SummaryParagraph(lines) ==
    LET h == CHOOSE i \in SummaryHeaders(lines) :
                \A j \in SummaryHeaders(lines) : i <= j
        same == Strip(AfterFirstColon(lines[h]))
        parts == (IF same = << >> THEN << >> ELSE <<same>>)
                    \o LinesUpToStopWord(lines, h + 1)
        text == Strip(JoinSpace(parts))
    IN IF text = << >> THEN NoSummaryText ELSE text

\* C25: for a reply with a line containing 'summary' and a colon, the
\* summary-paragraph parser returns all the text after the colon on that
\* line joined by single spaces with the non-blank lines after it up to the
\* first line starting with a stop-word; when nothing is captured it returns
\* the placeholder text, so the result is never the empty string.
C25_SummaryParagraphCaptured ==
    SummaryParsed =>
        /\ applied.output # << >>
        /\ SummaryHeaders(applied.input) # {} =>
             applied.output = SummaryParagraph(applied.input)
        /\ SummaryHeaders(applied.input) = {} => applied.output = NoSummaryText

\* a reply whose only line is a header with a second colon in its text
C25_SecondColonParsed ==
    /\ SummaryParsed
    /\ applied.input = << <<"S", "u", "m", "m", "a", "r", "y", ":", " ", "R", "a", "t", "i", "o", " ", "3", ":", "1">> >>
    /\ applied.output = <<"R", "a", "t", "i", "o", " ", "3">>

ItemsApplied == applied # NotApplied /\ applied.op = "items" /\ applied.done

Digits == {"1", "2", "3", "4", "5", "6", "7", "8", "9"}

\* a list line: it begins with '-', the bullet, '*' or 'N.' for a digit N
IsListLine(line) ==
    LET s == Strip(line)
    IN \/ Len(s) >= 1 /\ s[1] \in {"-", Bullet, "*"}
       \/ Len(s) >= 2 /\ s[1] \in Digits /\ s[2] = "."

\* the text of a list line with only its leading decoration removed
Undecorated(line) ==
    LET s == Strip(line)
    IN IF s[1] \in {"-", Bullet, "*"}
       THEN Strip(SubSeq(s, 2, Len(s)))
       ELSE Strip(SubSeq(s, 3, Len(s)))

\* C26: the list extraction returns at most 5 items, each the text of a list
\* line with only its leading bullet or number decoration removed (digits
\* that begin the item's own text are kept), and a line 'N.' for any single
\* digit N is a list item: the list line right after the header gives the
\* first item.
C26_ItemsKeepTheirText ==
    ItemsApplied =>
        /\ Len(applied.output) <= MaxListItems
        /\ \A k \in 1..Len(applied.output) :
             \E i \in 1..Len(applied.input) :
                /\ IsListLine(applied.input[i])
                /\ applied.output[k] = Undecorated(applied.input[i])
        /\ (/\ Len(applied.input) >= 2
            /\ applied.input[1] = <<"K", "e", "y", " ", "t", "o", "p", "i", "c", "s", ":">>
            /\ IsListLine(applied.input[2]))
           => /\ Len(applied.output) >= 1
              /\ applied.output[1] = Undecorated(applied.input[2])

\* the item '1. 2024 plan' came out as '024 plan'
C26_LeadingDigitsStripped ==
    /\ ItemsApplied
    /\ Len(applied.output) >= 1
    /\ applied.output[1] = <<"0", "2", "4", " ", "p", "l", "a", "n">>

\* the line '6. Sixth' right after the header ended the list: no item
C26_SixthNotAnItem ==
    /\ ItemsApplied
    /\ Len(applied.input) = 3
    /\ applied.input[2] = <<"6", ".", " ", "S", "i", "x", "t", "h">>
    /\ applied.input[1] = <<"K", "e", "y", " ", "t", "o", "p", "i", "c", "s", ":">>
    /\ applied.input[3] = <<"-", " ", "A", "l", "p", "h", "a">>
    /\ applied.output = << >>

\* six items follow the header and five are returned
C26_CappedAtFive ==
    /\ ItemsApplied
    /\ Len(applied.input) = MaxItemLines
    /\ \A i \in 2..MaxItemLines : applied.input[i] = <<"-", " ", "A", "l", "p", "h", "a">>
    /\ applied.input[1] = <<"K", "e", "y", " ", "t", "o", "p", "i", "c", "s", ":">>
    /\ Len(applied.output) = MaxListItems

\* the step is a chat call that failed with not-found
ChatNotFound ==
    /\ ChatStarts
    /\ result' # NoResult
    /\ result'.op = "chat"
    /\ result'.status = 404

\* C27: a chat call that fails with not-found leaves the service state as
\* it was: it creates and modifies no ConversationHistory, so a
\* conversationId first used in a failed call is still absent afterwards.
C27_FailedChatChangesNothing ==
    [][ChatNotFound =>
         /\ conversations' = conversations
         /\ chat_contexts' = chat_contexts]_vars

\* GET /chat/history answered 200 with an empty conversation: the id was
\* first used by a chat call that failed
C27_EmptyConversationServed ==
    /\ IsHistory
    /\ result.status = 200
    /\ result.body.messages = << >>
    /\ calls = 1

\* ChatService.get_conversations_for_analysis: the stored conversations
\* whose analysis_id is a
ConversationsForAnalysis(a) ==
    {conversations[c] : c \in {x \in ConvIds : conversations[x] # NoConv
                                               /\ conversations[x].analysis_id = a}}

\* C28: every message stored in a ConversationHistory carries the analysisId
\* of that ConversationHistory, also after calls that reuse an existing
\* conversationId with another analysisId; so the conversations listed for
\* an analysisId hold only messages of that analysis.
C28_MessagesCarryConversationAnalysis ==
    /\ \A c \in ConvIds :
         conversations[c] # NoConv =>
            \A i \in 1..Len(conversations[c].messages) :
               conversations[c].messages[i].analysis_id = conversations[c].analysis_id
    /\ \A a \in AnalysisIds :
         \A conv \in ConversationsForAnalysis(a) :
            \A i \in 1..Len(conv.messages) : conv.messages[i].analysis_id = a

\* a call that named an existing conversation and another analysis has
\* returned 200
C28_OtherAnalysisAnswered ==
    /\ result # NoResult
    /\ result.op = "chat"
    /\ result.status = 200
    /\ conversations[result.conversation_id].analysis_id # result.request.analysis_id

\* position of the message with id n in a message list (0 when absent)
PositionOf(messages, n) ==
    IF \E i \in 1..Len(messages) : messages[i].id = n
    THEN CHOOSE i \in 1..Len(messages) : messages[i].id = n
    ELSE 0

\* the step in which slot p's call, suspended in the summary LLM call,
\* resumes and renders its reply prompt
RendersAfterSummary(p) == pc[p] = "summary" /\ pc'[p] # "summary"

\* C29: in every interleaving of chat calls on one conversation, the history
\* rendered into a call's reply prompt excludes the call's own user message
\* and every message appended after it: the message dropped by the 'exclude
\* the current user message' step is the call's own user message, also when
\* the call was suspended for the summary recomputation before rendering.
C29_RenderDropsOwnUserMessage ==
    [][\A p \in Procs :
         RendersAfterSummary(p) =>
            LET m == conversations[cid[p]].messages
                own == PositionOf(m, UserMessageId(call_no[p]))
            IN /\ own > 0
               /\ m[Len(m)].id = UserMessageId(call_no[p])
               /\ \A k \in 1..Len(RenderedMessages(m)) :
                    PositionOf(m, RenderedMessages(m)[k].id) < own
               /\ ConversationHistoryText(m)
                    = ConversationHistoryText(SubSeq(m, 1, own))]_vars

\* the settled conversation is one the service reaches by three chat calls
C29_SettledReached ==
    /\ AllIdle
    /\ calls = SummaryThreshold \div 2
    /\ conversations["c1"] = SettledConversation
    /\ conversations["c2"] = NoConv
    /\ chat_contexts["a1"] = ChatContext("a1", "deck text")
    /\ chat_contexts["a2"] = NoContext

\* a call suspended in its summary LLM call while another call has appended
\* its user message to the same conversation
C29_OtherAppendedWhileSuspended ==
    \E p, q \in Procs :
        /\ p # q
        /\ pc[p] = "summary"
        /\ pc[q] # "idle"
        /\ cid[p] = cid[q]
        /\ call_no[p] < call_no[q]

\* C30: once POST /analyze-pdf has written the upload to a temporary file,
\* the file is deleted on every exit path of the request, so no temporary
\* file created by a request exists after its response is sent.
C30_NoTempFileAfterResponse ==
    (IsUpload /\ result.temp_written) => temp_files = {}

\* a request that wrote its temporary file and then failed in the
\* extraction has been answered
C30_Witness ==
    /\ IsUpload
    /\ result.temp_written
    /\ result.status = 500
    /\ result.extract = "error"
    /\ result.exception = "Exception"

\* a request that wrote its temporary file and failed after the extraction
C30_WitnessAfterExtraction ==
    /\ IsUpload
    /\ result.temp_written
    /\ result.extract = "ok"
    /\ result.exception = "TypeError"









====
